---------------------------- MODULE Spec2Model ----------------------------
(***************************************************************************)
(* Model of the YOLO export pipeline of kili/services/conversion:          *)
(*   format/yolo/merge.py, format/yolo/split.py, format/yolo/common.py,    *)
(*   video.py and tools.py.                                                *)
(*                                                                         *)
(* Python values are modelled as follows.                                  *)
(*   str        a TLA+ string; f-strings are \o concatenations, str(n) is  *)
(*              ToString(n), s[:-2] is SubSeq(s, 1, Len(s) - 2).           *)
(*   dict       when the code iterates it: a sequence of entries           *)
(*              [key, value] with pairwise distinct keys, in insertion      *)
(*              order (DictSet keeps the position of a key already there,   *)
(*              as Python does).  When the code only tests membership and   *)
(*              indexes it: a TLA+ function whose DOMAIN is the key set.    *)
(*   None       the record None.                                           *)
(*   float      coordinates are integers in thousandths of the image side; *)
(*              a true division a / b is kept as the fraction              *)
(*              [num |-> a, den |-> b].                                     *)
(*   exception  a result record whose field error names the exception.     *)
(***************************************************************************)
EXTENDS Integers, Sequences, FiniteSets, TLC

VARIABLES
    pc,                   \* position of the run in its specification
    json_interface,       \* kili.projects(...)[0]["jsonInterface"]["jobs"], in declaration order
    merged_categories_id, \* result of YoloMergeExporter._get_merged_categories
    categories_by_job,    \* result of YoloSplitExporter._get_categories_by_job
    call_job_id,          \* _convert_from_kili_to_yolo_format: argument job_id
    call_label,           \* _convert_from_kili_to_yolo_format: argument label
    call_category_ids,    \* argument category_ids of the conversion and of _write_class_file
    converted_annotations, \* outcome of _convert_from_kili_to_yolo_format
    label_format,         \* the exporter's label_format
    fs,                   \* the files and folders written so far: path -> content
    call_asset,           \* _process_asset: argument asset
    call_net,             \* what the network and ffmpeg answer during the call
    call_job_order,       \* the order in which the set job_ids is iterated
    processed,            \* outcome of _process_asset
    asset_frames,         \* outcome of LabelFrames.from_asset in _process_asset
    assets,               \* process_and_save: the assets, each with the answers of the network
    exported,             \* outcome of process_and_save: the exception, or the archive at output_filename
    split_option,         \* export_params.split_option
    export_io             \* whether writing the README and archiving succeed

indexVars == <<json_interface, merged_categories_id, categories_by_job>>

convertVars == <<call_job_id, call_label, call_category_ids, converted_annotations>>

fileVars == <<label_format, fs>>

assetVars == <<call_asset, call_net, call_job_order, processed, asset_frames>>

exportVars == <<assets, exported, split_option, export_io>>

vars == <<pc, indexVars, convertVars, fileVars, assetVars, exportVars>>

----------------------------------------------------------------------------
(* Bounds of the model.                                                    *)

MaxJobs == 2

MaxAnnotations == 2

\* Frames of the longest uniform frame group, and of the longest mixed one.
MaxFrames == 10

MaxGroup == 2

\* Assets of an export.
MaxAssets == 2

----------------------------------------------------------------------------
(* Python helpers.                                                         *)

None == [None |-> TRUE]

NoDict == <<>>

Range(s) == {s[i] : i \in 1..Len(s)}

DictKeys(d) == [i \in 1..Len(d) |-> d[i].key]

DictValues(d) == [i \in 1..Len(d) |-> d[i].value]

DictHas(d, k) == \E i \in 1..Len(d) : d[i].key = k

DictGet(d, k) == d[CHOOSE i \in 1..Len(d) : d[i].key = k].value

\* d[k] = v : a key already present keeps its position and takes the new value.
DictSet(d, k, v) ==
    IF DictHas(d, k)
    THEN [i \in 1..Len(d) |-> IF d[i].key = k THEN [key |-> k, value |-> v] ELSE d[i]]
    ELSE Append(d, [key |-> k, value |-> v])

\* Sequences of pairwise distinct elements of S, of length at most n.
DistinctSeqs(S, n) ==
    UNION {{s \in [1..k -> S] : \A i, j \in 1..k : i # j => s[i] # s[j]} : k \in 0..n}

\* F(value), the value being computed once: a local variable of the code that
\* is assigned once and read several times.
Let(F(_), value) == CHOOSE result \in {F(x) : x \in {value}} : TRUE

\* The outcome of a call: the exception it raised ("" when it returned) and
\* the value it returned.
Returned(value) == [raised |-> "", value |-> value]

Raised(exception) == [raised |-> exception, value |-> <<>>]

\* The variables of a part of the program that a specification does not run.
IdleConvert ==
    /\ call_job_id = ""
    /\ call_label = None
    /\ call_category_ids = NoDict
    /\ converted_annotations = Returned(<<>>)

IdleFiles ==
    /\ label_format = ""
    /\ fs = <<>>

IdleAsset ==
    /\ call_asset = None
    /\ call_net = None
    /\ call_job_order = <<>>
    /\ processed = None
    /\ asset_frames = None

IdleExport ==
    /\ assets = <<>>
    /\ exported = None
    /\ split_option = ""
    /\ export_io = ""

IdleIndex ==
    /\ json_interface = <<>>
    /\ merged_categories_id = NoDict
    /\ categories_by_job = NoDict

----------------------------------------------------------------------------
(* kili.orm constants used by get_project_and_init.                        *)

ObjectDetection == "OBJECT_DETECTION"

Rectangle == "rectangle"

get_project_and_init_ml_task == ObjectDetection

get_project_and_init_tool == Rectangle

----------------------------------------------------------------------------
(* Category indexing.                                                      *)

get_category_full_name(job_id, category_name) == job_id \o "__" \o category_name

JobCategory(category_name, id, job_id) ==
    [category_name |-> category_name, id |-> id, job_id |-> job_id]

\* job.get("mlTask") != ml_task : an absent key gives None, which differs from ml_task.
JobMlTaskDiffers(job, ml_task) == ~("mlTask" \in DOMAIN job /\ job.mlTask = ml_task)

\* job.get("tools", [])
JobTools(job) == IF "tools" \in DOMAIN job THEN job.tools ELSE {}

\* job.get("content", {}).get("categories", {}), iterated: the category keys in order.
JobCategories(job) == IF "categories" \in DOMAIN job THEN job.categories ELSE <<>>

\* Python truth value of job.get("isModel")
IsModelTruthy(job) == "isModel" \in DOMAIN job /\ job.isModel

\* The negation of the condition under which the loops `continue`.
JobIsSkippedNoModelTest(job, ml_task, tool) ==
    \/ JobMlTaskDiffers(job, ml_task)
    \/ tool \notin JobTools(job)

JobIsSkipped(job, ml_task, tool) ==
    \/ JobMlTaskDiffers(job, ml_task)
    \/ tool \notin JobTools(job)
    \/ IsModelTruthy(job)

\* The inner loop of _get_merged_categories over one job's categories.
RECURSIVE MergeJobCategories(_, _, _, _, _)
MergeJobCategories(acc, cat_number, job_id, categories, k) ==
    IF k > Len(categories) THEN [dict |-> acc, cat_number |-> cat_number]
    ELSE MergeJobCategories(
            DictSet(acc, get_category_full_name(job_id, categories[k]),
                    JobCategory(categories[k], cat_number, job_id)),
            cat_number + 1, job_id, categories, k + 1)

RECURSIVE MergeJobs(_, _, _, _, _, _)
MergeJobs(acc, cat_number, jobs, ml_task, tool, j) ==
    IF j > Len(jobs) THEN acc
    ELSE IF JobIsSkipped(jobs[j].value, ml_task, tool)
         THEN MergeJobs(acc, cat_number, jobs, ml_task, tool, j + 1)
         ELSE LET r == MergeJobCategories(acc, cat_number, jobs[j].key,
                                          JobCategories(jobs[j].value), 1)
              IN  MergeJobs(r.dict, r.cat_number, jobs, ml_task, tool, j + 1)

_get_merged_categories(jobs, ml_task, tool) == MergeJobs(<<>>, 0, jobs, ml_task, tool, 1)

\* enumerate(categories) counting from one.
RECURSIVE JobCategoriesDictFromOne(_, _, _, _)
JobCategoriesDictFromOne(acc, job_id, categories, k) ==
    IF k > Len(categories) THEN acc
    ELSE JobCategoriesDictFromOne(
            DictSet(acc, get_category_full_name(job_id, categories[k]),
                    JobCategory(categories[k], k, job_id)),
            job_id, categories, k + 1)

\* enumerate(categories) of one job in _get_categories_by_job.
RECURSIVE JobCategoriesDict(_, _, _, _)
JobCategoriesDict(acc, job_id, categories, k) ==
    IF k > Len(categories) THEN acc
    ELSE JobCategoriesDict(
            DictSet(acc, get_category_full_name(job_id, categories[k]),
                    JobCategory(categories[k], k - 1, job_id)),
            job_id, categories, k + 1)

RECURSIVE SplitJobs(_, _, _, _, _)
SplitJobs(acc, jobs, ml_task, tool, j) ==
    IF j > Len(jobs) THEN acc
    ELSE IF JobIsSkipped(jobs[j].value, ml_task, tool)
         THEN SplitJobs(acc, jobs, ml_task, tool, j + 1)
         ELSE SplitJobs(
                DictSet(acc, jobs[j].key,
                        JobCategoriesDict(<<>>, jobs[j].key, JobCategories(jobs[j].value), 1)),
                jobs, ml_task, tool, j + 1)

_get_categories_by_job(jobs, ml_task, tool) == SplitJobs(<<>>, jobs, ml_task, tool, 1)

----------------------------------------------------------------------------
(* Inputs of the category indexing: project interfaces.                    *)

JobIds == {"JOB_0", "JOB_1", "JOB_0__X"}

CategoryLists ==
    { <<>>, <<"OBJECT_A">>, <<"OBJECT_A", "OBJECT_B">>, <<"OBJECT_B", "OBJECT_A">>,
      <<"X__OBJECT_A">>, <<"OBJECT_B", "X__OBJECT_A">> }

\* The filter fields of a job: mlTask, tools and isModel, each present or absent.
JobFilterFields ==
    { [mlTask |-> "OBJECT_DETECTION", tools |-> {"rectangle"}],
      [mlTask |-> "OBJECT_DETECTION", tools |-> {"rectangle", "polygon"}, isModel |-> FALSE],
      [mlTask |-> "OBJECT_DETECTION", tools |-> {"rectangle"}, isModel |-> TRUE],
      [mlTask |-> "OBJECT_DETECTION", tools |-> {"polygon"}],
      [mlTask |-> "CLASSIFICATION", tools |-> {"rectangle"}],
      [isModel |-> FALSE] }

WithCategories(fields, categories) ==
    [f \in DOMAIN fields \cup {"categories"} |->
        IF f = "categories" THEN categories ELSE fields[f]]

Jobs == {WithCategories(f, c) : f \in JobFilterFields, c \in CategoryLists}

\* Jobs that carry a job without the "content" key as well.
JobsOrBare == Jobs \cup JobFilterFields

\* The interface whose jobs are js, declared under the ids ids in that order.
Interface(ids, js) == [i \in 1..Len(ids) |-> [key |-> ids[i], value |-> js[i]]]

----------------------------------------------------------------------------
(* Specification of the category indexing: the interface is drawn, then    *)
(* one of the two exporters derives its categories from it.                *)

InitIndex ==
    /\ pc = "interface"
    /\ \E ids \in DistinctSeqs(JobIds, MaxJobs) :
          \E js \in [1..Len(ids) -> JobsOrBare] : json_interface = Interface(ids, js)
    /\ merged_categories_id = NoDict
    /\ categories_by_job = NoDict
    /\ IdleConvert
    /\ IdleFiles
    /\ IdleAsset
    /\ IdleExport

GetMergedCategories ==
    /\ pc = "interface"
    /\ merged_categories_id' =
          _get_merged_categories(json_interface, get_project_and_init_ml_task,
                                 get_project_and_init_tool)
    /\ pc' = "merged"
    /\ UNCHANGED <<exportVars, json_interface, categories_by_job, convertVars, fileVars, assetVars>>

GetCategoriesByJob ==
    /\ pc = "interface"
    /\ categories_by_job' =
          _get_categories_by_job(json_interface, get_project_and_init_ml_task,
                                 get_project_and_init_tool)
    /\ pc' = "split"
    /\ UNCHANGED <<exportVars, json_interface, merged_categories_id, convertVars, fileVars, assetVars>>

NextIndex == GetMergedCategories \/ GetCategoriesByJob

SpecIndex == InitIndex /\ [][NextIndex]_vars

----------------------------------------------------------------------------
(* Claims on the category indexing (checked under SpecIndex).              *)

\* The filter as the specification words it: the task is object detection,
\* the tools contain "rectangle", and isModel is absent or false.
Qualifies(job) ==
    /\ "mlTask" \in DOMAIN job /\ job.mlTask = "OBJECT_DETECTION"
    /\ "tools" \in DOMAIN job /\ "rectangle" \in job.tools
    /\ ~("isModel" \in DOMAIN job /\ job.isModel = TRUE)

\* The (job id, category) pairs of the qualifying jobs of the interface, in job
\* declaration order and, within a job, in category declaration order.
RECURSIVE QualifyingCategoriesFrom(_, _)
QualifyingCategoriesFrom(jobs, j) ==
    IF j > Len(jobs) THEN <<>>
    ELSE (IF Qualifies(jobs[j].value)
          THEN [k \in 1..Len(JobCategories(jobs[j].value)) |->
                   [job_id |-> jobs[j].key, category |-> JobCategories(jobs[j].value)[k]]]
          ELSE <<>>)
         \o QualifyingCategoriesFrom(jobs, j + 1)

QualifyingCategories == QualifyingCategoriesFrom(json_interface, 1)

QualifyingJobIds == SelectSeq(DictKeys(json_interface),
                              LAMBDA id : Qualifies(DictGet(json_interface, id)))

IdsOf(d) == {d[i].value.id : i \in 1..Len(d)}

\* C1 (as claimed): in merged mode the ids of the categories of the qualifying
\* jobs are pairwise distinct, are exactly 0..n-1 for the n categories met, and
\* the k-th category met (job order, then category order) holds id k-1 in the
\* merged scope.
C1_MergedIdsDense ==
    pc = "merged" =>
        LET met == QualifyingCategories
            m   == merged_categories_id
        IN  /\ Len(m) = Len(met)
            /\ IdsOf(m) = 0..(Len(met) - 1)
            /\ \A i, j \in 1..Len(m) : i # j => m[i].value.id # m[j].value.id
            /\ \A k \in 1..Len(met) :
                  /\ m[k].key = get_category_full_name(met[k].job_id, met[k].category)
                  /\ m[k].value = JobCategory(met[k].category, k - 1, met[k].job_id)

\* C2: in split mode every qualifying job has its own scope, whose ids are
\* pairwise distinct and are 0..m-1 in the declaration order of the job's m
\* categories, whatever the other jobs hold.
C2_SplitIdsDensePerJob ==
    pc = "split" =>
        \A e \in 1..Len(categories_by_job) :
            LET job_id == categories_by_job[e].key
                scope  == categories_by_job[e].value
                cats   == JobCategories(DictGet(json_interface, job_id))
            IN  /\ Len(scope) = Len(cats)
                /\ IdsOf(scope) = 0..(Len(cats) - 1)
                /\ \A i, j \in 1..Len(scope) : i # j => scope[i].value.id # scope[j].value.id
                /\ \A k \in 1..Len(cats) :
                      /\ scope[k].key = get_category_full_name(job_id, cats[k])
                      /\ scope[k].value = JobCategory(cats[k], k - 1, job_id)

\* Two qualifying jobs with two categories each have been indexed in split mode.
C2_Witness ==
    /\ pc = "split"
    /\ Len(categories_by_job) = 2
    /\ \A e \in 1..2 : Len(categories_by_job[e].value) = 2

\* C3: in both modes exactly the jobs that pass the filter contribute. Merged:
\* the keys of the scope are the full names of the categories of the qualifying
\* jobs and every entry belongs to a qualifying job. Split: the scope has one
\* entry per qualifying job, in declaration order, keyed by the full names of
\* that job's categories.
C3_OnlyQualifyingJobsContribute ==
    /\ pc = "merged" =>
          /\ Range(DictKeys(merged_categories_id)) =
                {get_category_full_name(q.job_id, q.category) : q \in Range(QualifyingCategories)}
          /\ \A i \in 1..Len(merged_categories_id) :
                LET c == merged_categories_id[i].value
                IN  /\ c.job_id \in Range(QualifyingJobIds)
                    /\ c.category_name \in Range(JobCategories(DictGet(json_interface, c.job_id)))
    /\ pc = "split" =>
          /\ DictKeys(categories_by_job) = QualifyingJobIds
          /\ \A e \in 1..Len(categories_by_job) :
                \A i \in 1..Len(categories_by_job[e].value) :
                    LET c == categories_by_job[e].value[i].value
                    IN  /\ c.job_id = categories_by_job[e].key
                        /\ c.category_name \in
                              Range(JobCategories(DictGet(json_interface, c.job_id)))

\* A model-predicted job that declares categories stands next to a qualifying
\* job, and the merged scope has been derived.
C3_Witness ==
    /\ pc = "merged"
    /\ Len(merged_categories_id) > 0
    /\ \E j \in 1..Len(json_interface) :
          /\ IsModelTruthy(json_interface[j].value)
          /\ ~JobMlTaskDiffers(json_interface[j].value, ObjectDetection)
          /\ Rectangle \in JobTools(json_interface[j].value)
          /\ Len(JobCategories(json_interface[j].value)) > 0

----------------------------------------------------------------------------
(* Annotation conversion.                                                  *)

\* Python's a / b on numbers.
TrueDiv(a, b) == [num |-> a, den |-> b]

\* min(xs) and max(xs) of a non-empty list.
RECURSIVE SeqMin(_)
SeqMin(xs) ==
    IF Len(xs) = 1 THEN xs[1]
    ELSE LET m == SeqMin(Tail(xs)) IN IF xs[1] < m THEN xs[1] ELSE m

RECURSIVE SeqMax(_)
SeqMax(xs) ==
    IF Len(xs) = 1 THEN xs[1]
    ELSE LET m == SeqMax(Tail(xs)) IN IF xs[1] > m THEN xs[1] ELSE m

\* The box taken from two opposite corners only, the first and the third vertex.
BoxFromOppositeCorners(category_idx, normalized_vertices) ==
    LET a == normalized_vertices[1]
        b == normalized_vertices[IF Len(normalized_vertices) >= 3 THEN 3 ELSE 1]
        x_min == IF a.x < b.x THEN a.x ELSE b.x
        x_max == IF a.x < b.x THEN b.x ELSE a.x
        y_min == IF a.y < b.y THEN a.y ELSE b.y
        y_max == IF a.y < b.y THEN b.y ELSE a.y
    IN  <<category_idx.id, TrueDiv(x_max + x_min, 2), TrueDiv(y_max + y_min, 2),
          x_max - x_min, y_max - y_min>>

\* Lines 138-145: the record of one annotation, from the vertices of its first ring.
YoloAnnotation(category_idx, normalized_vertices) ==
    LET x_s == [i \in 1..Len(normalized_vertices) |-> normalized_vertices[i].x]
        y_s == [i \in 1..Len(normalized_vertices) |-> normalized_vertices[i].y]
        x_min == SeqMin(x_s)
        y_min == SeqMin(y_s)
        x_max == SeqMax(x_s)
        y_max == SeqMax(y_s)
    IN  <<category_idx.id, TrueDiv(x_max + x_min, 2), TrueDiv(y_max + y_min, 2),
          x_max - x_min, y_max - y_min>>

\* The loop with the category looked up only for the annotations it converts.
RECURSIVE SkipBeforeLookup(_, _, _, _, _)
SkipBeforeLookup(job_id, annotations, category_ids, k, acc) ==
    IF k > Len(annotations) THEN Returned(acc)
    ELSE LET annotation == annotations[k] IN
         IF \/ "boundingPoly" \notin DOMAIN annotation
            \/ Len(annotation.boundingPoly) < 1
            \/ "normalizedVertices" \notin DOMAIN annotation.boundingPoly[1]
         THEN SkipBeforeLookup(job_id, annotations, category_ids, k + 1, acc)
         ELSE IF Len(annotation.categories) = 0 THEN Raised("IndexError")
         ELSE LET full_name == get_category_full_name(job_id, annotation.categories[1].name) IN
         IF ~DictHas(category_ids, full_name) THEN Raised("KeyError")
         ELSE IF Len(annotation.boundingPoly[1].normalizedVertices) = 0 THEN Raised("ValueError")
         ELSE SkipBeforeLookup(job_id, annotations, category_ids, k + 1,
                Append(acc, YoloAnnotation(DictGet(category_ids, full_name),
                                           annotation.boundingPoly[1].normalizedVertices)))

\* The loop over the annotations of the job, from annotation k on.
RECURSIVE ConvertAnnotations(_, _, _, _, _)
ConvertAnnotations(job_id, annotations, category_ids, k, acc) ==
    IF k > Len(annotations) THEN Returned(acc)
    ELSE LET annotation == annotations[k] IN
         IF Len(annotation.categories) = 0 THEN Raised("IndexError")
         ELSE LET full_name == get_category_full_name(job_id, annotation.categories[1].name) IN
         IF ~DictHas(category_ids, full_name) THEN Raised("KeyError")
         ELSE IF "boundingPoly" \notin DOMAIN annotation
         THEN ConvertAnnotations(job_id, annotations, category_ids, k + 1, acc)
         ELSE IF \/ Len(annotation.boundingPoly) < 1
                 \/ "normalizedVertices" \notin DOMAIN annotation.boundingPoly[1]
         THEN ConvertAnnotations(job_id, annotations, category_ids, k + 1, acc)
         ELSE LET normalized_vertices == annotation.boundingPoly[1].normalizedVertices IN
         IF Len(normalized_vertices) = 0 THEN Raised("ValueError")
         ELSE ConvertAnnotations(job_id, annotations, category_ids, k + 1,
                Append(acc, YoloAnnotation(DictGet(category_ids, full_name),
                                           normalized_vertices)))

_convert_from_kili_to_yolo_format(job_id, label, category_ids) ==
    IF label = None \/ "jsonResponse" \notin DOMAIN label THEN Returned(<<>>)
    ELSE LET json_response == label.jsonResponse IN
         IF ~(job_id \in DOMAIN json_response /\ "annotations" \in DOMAIN json_response[job_id])
         THEN Returned(<<>>)
         ELSE ConvertAnnotations(job_id, json_response[job_id].annotations, category_ids, 1, <<>>)

----------------------------------------------------------------------------
(* Inputs of the conversion: annotations, labels and category scopes.      *)

Vertex(x, y) == [x |-> x, y |-> y]

\* The rectangle of the test fixture, in thousandths.
FixtureRing ==
    [normalizedVertices |-> <<Vertex(165, 799), Vertex(165, 261), Vertex(838, 261), Vertex(838, 799)>>]

TriangleRing ==
    [normalizedVertices |-> <<Vertex(100, 200), Vertex(500, 900), Vertex(300, 100)>>]

PointRing == [normalizedVertices |-> <<Vertex(400, 600)>>]

\* The ring the label importer gives a COCO annotation: (1, 2) and (3, 4).
ImportedRing == [normalizedVertices |-> <<Vertex(1000, 2000), Vertex(3000, 4000)>>]

Category(name) == [name |-> name, confidence |-> 100]

Annotations ==
    { [categories |-> <<Category("OBJECT_A")>>, boundingPoly |-> <<FixtureRing>>],
      [categories |-> <<Category("OBJECT_B")>>, boundingPoly |-> <<TriangleRing>>],
      [categories |-> <<Category("OBJECT_B"), Category("OBJECT_A")>>, boundingPoly |-> <<PointRing>>],
      [categories |-> <<Category("OBJECT_A")>>, boundingPoly |-> <<PointRing, FixtureRing>>],
      [categories |-> <<Category("OBJECT_A")>>],
      [categories |-> <<Category("OBJECT_B")>>, boundingPoly |-> <<>>],
      [categories |-> <<Category("OBJECT_A")>>, boundingPoly |-> <<[vertices |-> <<Vertex(1, 2)>>]>>],
      [categories |-> <<Category("OBJECT_A")>>, boundingPoly |-> <<[normalizedVertices |-> <<>>]>>],
      [categories |-> <<Category("OBJECT_C")>>, boundingPoly |-> <<FixtureRing>>],
      [categories |-> <<Category("OBJECT_C")>>],
      [categories |-> <<>>, boundingPoly |-> <<TriangleRing>>],
      [categories |-> <<Category("OBJECT_A")>>, boundingPoly |-> <<ImportedRing>>] }

AnnotationLists == UNION {[1..n -> Annotations] : n \in 0..MaxAnnotations}

\* The annotation of the fixture's job_0.
FixtureAnnotations == <<[categories |-> <<Category("OBJECT_A")>>, boundingPoly |-> <<FixtureRing>>]>>

\* The category scope of the test fixture.
FixtureCategoryIds ==
    << [key |-> "JOB_0__OBJECT_A", value |-> JobCategory("OBJECT_A", 0, "JOB_0")],
       [key |-> "JOB_0__OBJECT_B", value |-> JobCategory("OBJECT_B", 1, "JOB_0")] >>

QualifyingJob(categories) ==
    [mlTask |-> "OBJECT_DETECTION", tools |-> {"rectangle"}, categories |-> categories]

\* Scopes the category indexing returns: the fixture's, a merged scope in which
\* JOB_0 comes second, and a scope without JOB_0.
CategoryScopes ==
    { FixtureCategoryIds,
      _get_merged_categories(
          Interface(<<"JOB_1", "JOB_0">>,
                    <<QualifyingJob(<<"OBJECT_A">>), QualifyingJob(<<"OBJECT_B", "OBJECT_A">>)>>),
          ObjectDetection, Rectangle),
      _get_merged_categories(Interface(<<"JOB_1">>, <<QualifyingJob(<<"OBJECT_A">>)>>),
                             ObjectDetection, Rectangle) }

\* What a label holds for one job: the annotations key may be missing.
JobResponses == {[annotations |-> a] : a \in AnnotationLists} \cup {[jobName |-> "JOB"]}

\* jsonResponse of a single-frame label: JOB_0 is absent or holds any response,
\* JOB_1 is absent or holds the fixture's annotation.
FrameResponses ==
    {[j \in {"JOB_0"} |-> r] : r \in JobResponses}
    \cup {[j \in {"JOB_0", "JOB_1"} |->
             IF j = "JOB_0" THEN r ELSE [annotations |-> FixtureAnnotations]] : r \in JobResponses}
    \cup {[j \in {"JOB_1"} |-> [annotations |-> FixtureAnnotations]]}

Author == [firstname |-> "Jean-Pierre", lastname |-> "Dupont"]

Labels ==
    {None, [author |-> Author]}
    \cup {[jsonResponse |-> r, author |-> Author] : r \in FrameResponses}

----------------------------------------------------------------------------
(* Specification of the conversion: the arguments are drawn, then the      *)
(* function is applied to them.                                            *)

InitConvert ==
    /\ pc = "arguments"
    /\ call_job_id \in {"JOB_0", "JOB_1"}
    /\ call_label \in Labels
    /\ call_category_ids \in CategoryScopes
    /\ converted_annotations = Returned(<<>>)
    /\ IdleIndex
    /\ IdleFiles
    /\ IdleAsset
    /\ IdleExport

ConvertFromKiliToYoloFormat ==
    /\ pc = "arguments"
    /\ converted_annotations' = _convert_from_kili_to_yolo_format(call_job_id, call_label, call_category_ids)
    /\ pc' = "converted"
    /\ UNCHANGED <<exportVars, indexVars, fileVars, assetVars, call_job_id, call_label, call_category_ids>>

NextConvert == ConvertFromKiliToYoloFormat

SpecConvert == InitConvert /\ [][NextConvert]_vars

----------------------------------------------------------------------------
(* Claims on the conversion (checked under SpecConvert).                   *)

\* The call reached the loop: the label holds an annotations list for the job.
JobHasAnnotations ==
    /\ call_label # None
    /\ "jsonResponse" \in DOMAIN call_label
    /\ call_job_id \in DOMAIN call_label.jsonResponse
    /\ "annotations" \in DOMAIN call_label.jsonResponse[call_job_id]

JobAnnotations == call_label.jsonResponse[call_job_id].annotations

KnownFirstCategory(annotation) ==
    /\ Len(annotation.categories) >= 1
    /\ DictHas(call_category_ids,
               get_category_full_name(call_job_id, annotation.categories[1].name))

HasFirstRing(annotation) ==
    /\ "boundingPoly" \in DOMAIN annotation
    /\ Len(annotation.boundingPoly) >= 1
    /\ "normalizedVertices" \in DOMAIN annotation.boundingPoly[1]

HasEmptyFirstRing(annotation) ==
    HasFirstRing(annotation) /\ Len(annotation.boundingPoly[1].normalizedVertices) = 0

Least(S) == CHOOSE m \in S : \A u \in S : m <= u

Greatest(S) == CHOOSE m \in S : \A u \in S : u <= m

\* The record the specification asks for: class id, centre and extent of the
\* axis-aligned box around all vertices of the first ring.
ExpectedRecord(annotation) ==
    LET ring == Range(annotation.boundingPoly[1].normalizedVertices)
        xs == {v.x : v \in ring}
        ys == {v.y : v \in ring}
        id == DictGet(call_category_ids,
                      get_category_full_name(call_job_id, annotation.categories[1].name)).id
    IN  <<id, TrueDiv(Greatest(xs) + Least(xs), 2), TrueDiv(Greatest(ys) + Least(ys), 2),
          Greatest(xs) - Least(xs), Greatest(ys) - Least(ys)>>

ExpectedRecords(annotations) ==
    [i \in 1..Len(annotations) |-> ExpectedRecord(annotations[i])]

FixtureCall ==
    /\ call_job_id = "JOB_0"
    /\ call_category_ids = FixtureCategoryIds
    /\ JobHasAnnotations
    /\ JobAnnotations = FixtureAnnotations

FixtureRecords == << <<0, TrueDiv(1003, 2), TrueDiv(1060, 2), 673, 538>> >>

\* C4 (as claimed): every annotation of the job that has a known first category
\* and a first ring with normalizedVertices gives exactly one record, the box
\* around all vertices of that ring, and the records come in annotation order.
\* (Stated for rings that hold at least one vertex, where min and max exist.)
C4_EveryKnownRingedAnnotationEmits ==
    (/\ pc = "converted"
     /\ JobHasAnnotations
     /\ \A i \in 1..Len(JobAnnotations) : ~HasEmptyFirstRing(JobAnnotations[i])) =>
        converted_annotations.value =
            ExpectedRecords(SelectSeq(JobAnnotations,
                                      LAMBDA a : KnownFirstCategory(a) /\ HasFirstRing(a)))

\* C4 (amended): when every annotation of the job has a known first category
\* and no first ring is an empty vertex list, the call returns exactly one
\* record per annotation that has a first ring with normalizedVertices, the box
\* around all vertices of that ring, in annotation order; otherwise the call
\* raises and returns no record at all. The fixture gives one record, class 0.
C4_ConversionEmitsBoxesOrRaises ==
    /\ (pc = "converted" /\ JobHasAnnotations) =>
          IF \A i \in 1..Len(JobAnnotations) :
                KnownFirstCategory(JobAnnotations[i]) /\ ~HasEmptyFirstRing(JobAnnotations[i])
          THEN /\ converted_annotations.raised = ""
               /\ converted_annotations.value =
                     ExpectedRecords(SelectSeq(JobAnnotations, HasFirstRing))
          ELSE /\ converted_annotations.raised \in {"KeyError", "IndexError", "ValueError"}
               /\ converted_annotations.value = <<>>
    /\ (pc = "converted" /\ FixtureCall) => converted_annotations = Returned(FixtureRecords)

\* Two annotations of different classes were converted, one of them a triangle.
C4_Witness ==
    /\ pc = "converted"
    /\ Len(converted_annotations.value) = 2
    /\ converted_annotations.value[1][1] # converted_annotations.value[2][1]
    /\ \E i \in 1..2 : converted_annotations.value[i][4] = 400

----------------------------------------------------------------------------
(* Files, and the class file.                                              *)

\* os.path.join(folder, name)
PathJoin(folder, name) == folder \o "/" \o name

TextFile(text) == [kind |-> "text", text |-> text]

Directory == [kind |-> "dir"]

\* open(path, "w") ... write: the file is created or replaced.
WriteFile(files, path, content) ==
    [p \in DOMAIN files \cup {path} |-> IF p = path THEN content ELSE files[p]]

\* AnnotationFormat.YoloV4 and AnnotationFormat.YoloV5, as export_assets passes
\* them (label_format.lower()).
YoloV4 == "yolo_v4"

YoloV5 == "yolo_v5"

\* The loop of lines 224-225: one line per category.
RECURSIVE ClassesTxt(_, _)
ClassesTxt(values, k) ==
    IF k > Len(values) THEN ""
    ELSE ToString(values[k].id) \o " " \o values[k].category_name \o "\n"
         \o ClassesTxt(values, k + 1)

\* The loop of lines 229-230: categories += f"'{name}', "
RECURSIVE QuotedCategories(_, _)
QuotedCategories(values, k) ==
    IF k > Len(values) THEN ""
    ELSE "'" \o values[k].category_name \o "', " \o QuotedCategories(values, k + 1)

\* categories[:-1]
AllButLast(categories) == SubSeq(categories, 1, Len(categories) - 1)

\* categories[:-2]
AllButLastTwo(categories) == SubSeq(categories, 1, Len(categories) - 2)

DataYaml(category_ids) ==
    "nc: " \o ToString(Len(category_ids)) \o "\n"
    \o "names: [" \o AllButLastTwo(QuotedCategories(DictValues(category_ids), 1)) \o "]\n"

_write_class_file(files, folder, category_ids, format) ==
    LET v4 == IF format = YoloV4
              THEN WriteFile(files, PathJoin(folder, "classes.txt"),
                             TextFile(ClassesTxt(DictValues(category_ids), 1)))
              ELSE files
    IN  IF format = YoloV5
        THEN WriteFile(v4, PathJoin(folder, "data.yaml"), TextFile(DataYaml(category_ids)))
        ELSE v4

----------------------------------------------------------------------------
(* Specification of the class file: a category scope returned by the       *)
(* indexing and a format are drawn, then the class file is written.        *)

LabelFormats == {YoloV4, YoloV5, "raw"}

InitClassFile ==
    /\ pc = "arguments"
    /\ \E ids \in DistinctSeqs(JobIds, MaxJobs) :
          \E cs \in [1..Len(ids) -> CategoryLists] :
              call_category_ids =
                  _get_merged_categories(
                      Interface(ids, [i \in 1..Len(ids) |-> QualifyingJob(cs[i])]),
                      ObjectDetection, Rectangle)
    /\ label_format \in LabelFormats
    /\ fs = <<>>
    /\ call_job_id = ""
    /\ call_label = None
    /\ converted_annotations = Returned(<<>>)
    /\ IdleIndex
    /\ IdleAsset
    /\ IdleExport

WriteClassFile ==
    /\ pc = "arguments"
    /\ fs' = _write_class_file(fs, "base", call_category_ids, label_format)
    /\ pc' = "written"
    /\ UNCHANGED <<exportVars, indexVars, convertVars, assetVars, label_format>>

NextClassFile == WriteClassFile

SpecClassFile == InitClassFile /\ [][NextClassFile]_vars

----------------------------------------------------------------------------
(* Claims on the class file (checked under SpecClassFile).                 *)

\* The lines of a text, each without its terminating newline; a last line
\* that no newline ends is kept with the mark "<unterminated>".
RECURSIVE LinesFrom(_, _, _)
LinesFrom(text, start, i) ==
    IF i > Len(text)
    THEN (IF start > Len(text) THEN <<>>
          ELSE <<SubSeq(text, start, Len(text)) \o "<unterminated>">>)
    ELSE IF SubSeq(text, i, i) = "\n"
         THEN <<SubSeq(text, start, i - 1)>> \o LinesFrom(text, i + 1, i + 1)
         ELSE LinesFrom(text, start, i + 1)

Lines(text) == LinesFrom(text, 1, 1)

\* The names, single-quoted and joined by ", ".
RECURSIVE JoinQuoted(_)
JoinQuoted(names) ==
    IF Len(names) = 0 THEN ""
    ELSE IF Len(names) = 1 THEN "'" \o names[1] \o "'"
    ELSE "'" \o names[1] \o "', " \o JoinQuoted(Tail(names))

ScopeNames == [i \in 1..Len(call_category_ids) |-> call_category_ids[i].value.category_name]

\* C9: for YOLOv4 classes.txt holds one line "<id> <name>" per category of the
\* scope, in the order of the scope; for YOLOv5 data.yaml holds exactly the two
\* lines "nc: <count>" and "names: [<quoted names joined by ', '>]", with no
\* trailing separator; the fixture scope gives the two texts of the tests.
C9_ClassFileFormat ==
    pc = "written" =>
        /\ label_format = YoloV4 =>
              /\ DOMAIN fs = {"base/classes.txt"}
              /\ Lines(fs["base/classes.txt"].text) =
                    [i \in 1..Len(call_category_ids) |->
                        ToString(call_category_ids[i].value.id) \o " " \o ScopeNames[i]]
              /\ call_category_ids = FixtureCategoryIds =>
                    fs["base/classes.txt"].text = "0 OBJECT_A\n1 OBJECT_B\n"
        /\ label_format = YoloV5 =>
              /\ DOMAIN fs = {"base/data.yaml"}
              /\ Lines(fs["base/data.yaml"].text) =
                    << "nc: " \o ToString(Len(call_category_ids)),
                       "names: [" \o JoinQuoted(ScopeNames) \o "]" >>
              /\ call_category_ids = FixtureCategoryIds =>
                    fs["base/data.yaml"].text = "nc: 2\nnames: ['OBJECT_A', 'OBJECT_B']\n"

\* The YOLOv5 class file of a scope of at least three categories was written.
C9_Witness ==
    /\ pc = "written"
    /\ label_format = YoloV5
    /\ Len(call_category_ids) >= 3
    /\ "base/data.yaml" \in DOMAIN fs

----------------------------------------------------------------------------
(* Frames of an asset, and the processing of one asset.                    *)

\* tools.py: KILI_FILES, the prefix of the urls the platform serves itself.
KILI_FILES == "http://kili/api/v2/files"

is_asset_served_by_kili(url) ==
    Len(url) >= Len(KILI_FILES) /\ SubSeq(url, 1, Len(KILI_FILES)) = KILI_FILES

\* str.zfill(width) of the decimal text of a number >= 0.
RECURSIVE ZFill(_, _)
ZFill(text, width) == IF Len(text) >= width THEN text ELSE ZFill("0" \o text, width)

\* list[idx] with Python's indices: 0 is the first element, -1 the last.
ListHas(list, idx) == -Len(list) <= idx /\ idx < Len(list)

ListGet(list, idx) == IF idx >= 0 THEN list[idx + 1] ELSE list[Len(list) + idx + 1]

\* set(map(lambda job_category: job_category.job_id, category_ids.values()))
JobIdsOf(category_ids) == {category_ids[i].value.job_id : i \in 1..Len(category_ids)}

\* The orders in which a Python set of strings may be iterated.
Orders(S) == {o \in [1..Cardinality(S) -> S] : \A i, j \in 1..Cardinality(S) : i # j => o[i] # o[j]}

\* The test of lines 52-56 for one frame: some job has a non-empty annotations list.
\* Every frame is retained.
AnyFrame(frame_asset, job_ids) == TRUE

FrameHasAnnotations(frame_asset, job_ids) ==
    \E job_id \in job_ids :
        /\ job_id \in DOMAIN frame_asset
        /\ "annotations" \in DOMAIN frame_asset[job_id]
        /\ Len(frame_asset[job_id].annotations) > 0

\* The loop of lines 47-58, from index idx on.
RECURSIVE RetainedFrames(_, _, _, _)
RetainedFrames(json_response, job_ids, number_of_frames, idx) ==
    IF idx >= number_of_frames THEN <<>>
    ELSE (IF /\ ToString(idx) \in DOMAIN json_response
             /\ FrameHasAnnotations(json_response[ToString(idx)], job_ids)
          THEN <<[idx |-> idx,
                  frame |-> [latestLabel |-> [jsonResponse |-> json_response[ToString(idx)]]]]>>
          ELSE <<>>)
         \o RetainedFrames(json_response, job_ids, number_of_frames, idx + 1)

LabelFrames(frames, number_frames, is_frame_group, external_id) ==
    [frames |-> frames, number_frames |-> number_frames,
     is_frame_group |-> is_frame_group, external_id |-> external_id]

\* LabelFrames.from_asset; `"jsonResponse" in None` raises TypeError.
from_asset(asset, job_ids) ==
    IF asset.latestLabel = None THEN Raised("TypeError")
    ELSE IF "jsonResponse" \notin DOMAIN asset.latestLabel
    THEN Returned(LabelFrames(<<[idx |-> -1, frame |-> asset]>>, 0, FALSE, asset.externalId))
    ELSE LET json_response == asset.latestLabel.jsonResponse
             number_of_frames == Cardinality(DOMAIN json_response)
             is_frame_group == \E idx \in 0..(number_of_frames - 1) :
                                   ToString(idx) \in DOMAIN json_response
             frames == RetainedFrames(json_response, job_ids, number_of_frames, 0)
         IN  Returned(LabelFrames(
                 IF Len(frames) = 0 THEN <<[idx |-> -1, frame |-> asset]>> ELSE frames,
                 number_of_frames, is_frame_group, asset.externalId))

\* A width of one digit whatever the number of frames.
OneLeadingZero(label_frames) == 1

get_leading_zeros(label_frames) == Len(ToString(label_frames.number_frames))

get_label_filename(label_frames, idx) ==
    label_frames.external_id \o "_" \o ZFill(ToString(idx + 1), get_leading_zeros(label_frames))

\* video.py get_content_frames, which _process_asset imports under the name
\* get_content_frames_paths: the frame urls served at asset["jsonContent"].
get_content_frames(asset, net) ==
    IF asset.content = "" /\ asset.jsonContent # ""
    THEN (IF net.json_content.ok THEN net.json_content.frames ELSE <<>>)
    ELSE <<>>

\* _get_frame_labels: the records of all jobs, in the iteration order of job_ids.
RECURSIVE FrameLabelsFrom(_, _, _, _, _)
FrameLabelsFrom(frame, job_order, category_ids, k, acc) ==
    IF k > Len(job_order) THEN Returned(acc)
    ELSE LET job_annotations ==
                 _convert_from_kili_to_yolo_format(job_order[k], frame.latestLabel, category_ids)
         IN  IF job_annotations.raised # "" THEN job_annotations
             ELSE FrameLabelsFrom(frame, job_order, category_ids, k + 1,
                                  acc \o job_annotations.value)

_get_frame_labels(frame, job_order, category_ids) ==
    FrameLabelsFrom(frame, job_order, category_ids, 1, <<>>)

\* _write_labels_to_file: one line per record (the text of the floats is not modelled).
LabelFile(annotations) == [kind |-> "labels", lines |-> annotations]

ImageFile(source) == [kind |-> "image", source |-> source]

\* What a call has done so far: the files, the rows of asset_remote_content,
\* video_filenames, the requests made, the frames of the loop whose labels
\* were computed (filename and frame_labels), and the exception that ended it.
Effects(files) ==
    [fs |-> files, remote |-> <<>>, video_filenames |-> <<>>, events |-> <<>>,
     visited |-> <<>>, raised |-> ""]

\* _write_content_frame_to_file without the try around it.
UncaughtDownload(st, content_frame, images_folder, filename, net) ==
    IF net.image = "ok"
    THEN [st EXCEPT !.fs = WriteFile(@, PathJoin(images_folder, filename \o ".jpg"),
                                     ImageFile(content_frame))]
    ELSE [st EXCEPT !.raised = IF net.image = "missing_env" THEN "ValueError" ELSE "DownloadError"]

\* _write_content_frame_to_file inside the try of lines 191-196: a missing
\* environment variable raises ValueError, a refused request DownloadError,
\* which the caller logs.
DownloadFrame(st, content_frame, images_folder, filename, net) ==
    IF net.image = "missing_env" THEN [st EXCEPT !.raised = "ValueError"]
    ELSE LET requested == [st EXCEPT !.events =
                              Append(@, [kind |-> "image_download", url |-> content_frame,
                                         filename |-> filename, ok |-> net.image = "ok"])]
         IN  IF net.image = "ok"
             THEN [requested EXCEPT !.fs = WriteFile(@, PathJoin(images_folder, filename \o ".jpg"),
                                                     ImageFile(content_frame))]
             ELSE requested

\* Lines 188-198 with the download of line 190 made for the frames of a group too.
DownloadsGroupFrames(st, asset, label_frames, content_frames, idx, filename, images_folder, net) ==
    IF Len(content_frames) > 0 /\ ~ListHas(content_frames, idx)
    THEN [st EXCEPT !.raised = "IndexError"]
    ELSE LET content_frame == IF Len(content_frames) > 0 THEN ListGet(content_frames, idx)
                              ELSE asset.content
         IN  IF is_asset_served_by_kili(content_frame)
             THEN (IF Len(content_frames) > 0
                   THEN DownloadFrame(st, content_frame, images_folder, filename, net)
                   ELSE st)
             ELSE [st EXCEPT !.remote =
                       Append(@, <<asset.externalId, content_frame, filename \o ".txt">>)]

\* Lines 188-198 with the row of line 198 recorded for every frame.
RowsForEveryFrame(st, asset, label_frames, content_frames, idx, filename, images_folder, net) ==
    IF Len(content_frames) > 0 /\ ~ListHas(content_frames, idx)
    THEN [st EXCEPT !.raised = "IndexError"]
    ELSE LET content_frame == IF Len(content_frames) > 0 THEN ListGet(content_frames, idx)
                              ELSE asset.content
             rowed == [st EXCEPT !.remote =
                          Append(@, <<asset.externalId, content_frame, filename \o ".txt">>)]
         IN  IF /\ is_asset_served_by_kili(content_frame)
                /\ Len(content_frames) > 0
                /\ ~label_frames.is_frame_group
             THEN DownloadFrame(rowed, content_frame, images_folder, filename, net)
             ELSE rowed

\* Lines 188-198: what is done for the media of a frame whose label file was written.
Materialize(st, asset, label_frames, content_frames, idx, filename, images_folder, net) ==
    IF Len(content_frames) > 0 /\ ~ListHas(content_frames, idx)
    THEN [st EXCEPT !.raised = "IndexError"]
    ELSE LET content_frame == IF Len(content_frames) > 0 THEN ListGet(content_frames, idx)
                              ELSE asset.content
         IN  IF is_asset_served_by_kili(content_frame)
             THEN (IF Len(content_frames) > 0 /\ ~label_frames.is_frame_group
                   THEN DownloadFrame(st, content_frame, images_folder, filename, net)
                   ELSE st)
             ELSE [st EXCEPT !.remote =
                       Append(@, <<asset.externalId, content_frame, filename \o ".txt">>)]

\* `not frame_labels`: the list is empty.
NeverEmptyList(list) == FALSE

IsEmptyList(list) == Len(list) = 0

\* The body of the loop of lines 174-198 for the k-th retained frame.
RECURSIVE ProcessFrames(_, _, _, _, _, _, _, _, _, _)
ProcessFrames(st, asset, label_frames, content_frames, images_folder, labels_folder, category_ids, job_order, net, k) ==
    IF k > Len(label_frames.frames) \/ st.raised # "" THEN st
    ELSE LET idx == label_frames.frames[k].idx
             frame == label_frames.frames[k].frame
             filename == IF label_frames.is_frame_group
                         THEN get_label_filename(label_frames, idx)
                         ELSE asset.externalId
             named == IF label_frames.is_frame_group
                      THEN [st EXCEPT !.video_filenames = Append(@, filename)]
                      ELSE st
             labelled(frame_labels) ==
                 IF frame_labels.raised # "" THEN [named EXCEPT !.raised = frame_labels.raised]
                 ELSE IF IsEmptyList(frame_labels.value)
                 THEN [named EXCEPT !.visited = Append(@, [filename |-> filename, frame_labels |-> <<>>])]
                 ELSE Materialize(
                          [named EXCEPT !.visited = Append(@, [filename |-> filename,
                                                               frame_labels |-> frame_labels.value]),
                                        !.fs = WriteFile(@, PathJoin(labels_folder, filename \o ".txt"),
                                                         LabelFile(frame_labels.value))],
                          asset, label_frames, content_frames, idx, filename, images_folder, net)
             next == Let(labelled, _get_frame_labels(frame, job_order, category_ids))
         IN  Let(LAMBDA done : ProcessFrames(done, asset, label_frames, content_frames,
                                             images_folder, labels_folder, category_ids,
                                             job_order, net, k + 1),
                 next)

\* video.py cut_video: the video is requested, its frame rate probed unless the
\* metadata give it, its frames extracted, and the frames that have labels copied.
RECURSIVE CopyFrames(_, _, _, _, _, _, _)
CopyFrames(files, asset, frames, images_folder, leading_zeros, extracted, k) ==
    IF k > Len(frames) THEN files
    ELSE CopyFrames(
            IF 0 <= frames[k].idx /\ frames[k].idx < extracted
            THEN WriteFile(files,
                           PathJoin(images_folder,
                                    asset.externalId \o "_"
                                    \o ZFill(ToString(frames[k].idx + 1), leading_zeros) \o ".jpg"),
                           ImageFile(asset.content))
            ELSE files,
            asset, frames, images_folder, leading_zeros, extracted, k + 1)

HasFrameRate(asset) ==
    /\ "jsonMetadata" \in DOMAIN asset
    /\ "processingParameters" \in DOMAIN asset.jsonMetadata
    /\ "framesPlayedPerSecond" \in DOMAIN asset.jsonMetadata.processingParameters

cut_video(st, asset, frames, images_folder, leading_zeros, net) ==
    LET requested == [st EXCEPT !.events =
                         Append(@, [kind |-> "video_download", url |-> asset.content,
                                    filename |-> asset.externalId, ok |-> net.video # "download_failed"])]
        probed == IF HasFrameRate(asset) THEN requested
                  ELSE [requested EXCEPT !.events =
                           Append(@, [kind |-> "probe", url |-> asset.content,
                                      filename |-> asset.externalId, ok |-> net.video \notin {"download_failed", "probe_failed"}])]
    IN  IF ~HasFrameRate(asset) /\ net.video \in {"download_failed", "probe_failed"}
        THEN [probed EXCEPT !.raised = "ffmpeg.Error"]
        ELSE LET extracting == [probed EXCEPT !.events =
                                   Append(@, [kind |-> "extract", url |-> asset.content,
                                              filename |-> asset.externalId, ok |-> net.video = "ok"])]
             IN  IF net.video # "ok" THEN [extracting EXCEPT !.raised = "ffmpeg.Error"]
                 ELSE [extracting EXCEPT !.fs =
                          CopyFrames(@, asset, frames, images_folder, leading_zeros,
                                     net.video_frames, 1)]

_process_asset(files, asset, images_folder, labels_folder, category_ids, job_order, net) ==
    LET after_loop(label_frames, content_frames, looped) ==
            IF looped.raised # "" THEN looped
            ELSE IF /\ Len(content_frames) = 0
                    /\ label_frames.is_frame_group
                    /\ is_asset_served_by_kili(asset.content)
            THEN cut_video(looped, asset, label_frames.frames, images_folder,
                           get_leading_zeros(label_frames), net)
            ELSE looped
        with_frames(label_frames, content_frames) ==
            Let(LAMBDA looped : after_loop(label_frames, content_frames, looped),
                ProcessFrames(Effects(files), asset, label_frames, content_frames,
                              images_folder, labels_folder, category_ids, job_order, net, 1))
        with_label_frames(made) ==
            IF made.raised # "" THEN [Effects(files) EXCEPT !.raised = made.raised]
            ELSE Let(LAMBDA content_frames : with_frames(made.value, content_frames),
                     get_content_frames(asset, net))
    IN  Let(with_label_frames, from_asset(asset, JobIdsOf(category_ids)))

----------------------------------------------------------------------------
(* Inputs of the asset processing: assets, and what the network answers.   *)

\* The media urls of the fixtures, and urls the platform serves.
RemoteImage == "https://storage.googleapis.com/label-public-staging/car/car_1.jpg"

RemoteVideo == "https://storage.googleapis.com/label-public-staging/video1/video1.mp4"

HostedContent == KILI_FILES \o "?id=content"

HostedJsonContent == KILI_FILES \o "?id=json"

HostedFrame == KILI_FILES \o "?id=frame"

\* jsonResponse of one frame, by job.
FixtureFrame == [j \in {"JOB_0"} |-> [annotations |-> FixtureAnnotations]]

OneJobFrame(annotations) == [j \in {"JOB_0"} |-> [annotations |-> annotations]]

AssetFrameResponses ==
    { FixtureFrame,
      OneJobFrame(<<>>),
      OneJobFrame(<<[categories |-> <<Category("OBJECT_A")>>]>>),
      OneJobFrame(<<[categories |-> <<Category("OBJECT_A")>>,
                     boundingPoly |-> <<[vertices |-> <<Vertex(1, 2)>>]>>]>>),
      OneJobFrame(<<[categories |-> <<Category("OBJECT_C")>>, boundingPoly |-> <<FixtureRing>>]>>),
      [j \in {"JOB_0"} |-> [jobName |-> "JOB_0"]],
      [j \in {"JOB_1"} |-> [annotations |-> FixtureAnnotations]],
      [j \in {"JOB_0", "JOB_1"} |->
          IF j = "JOB_0"
          THEN [annotations |-> <<[categories |-> <<Category("OBJECT_B")>>,
                                   boundingPoly |-> <<TriangleRing>>]>>]
          ELSE [annotations |-> FixtureAnnotations]] }

\* jsonResponse of a frame group: frames[i] under the key keys[i].
Group(keys, frames) ==
    [key \in Range(keys) |-> frames[CHOOSE i \in 1..Len(keys) : keys[i] = key]]

\* The keys "0" .. "n-1".
DenseKeys(n) == [i \in 1..n |-> ToString(i - 1)]

GroupResponses ==
    {Group(DenseKeys(n), [i \in 1..n |-> FixtureFrame]) : n \in 1..MaxFrames}
    \cup UNION {{Group(DenseKeys(n), frames) : frames \in [1..n -> AssetFrameResponses]} :
                   n \in 1..MaxGroup}
    \cup {Group(keys, [i \in 1..Len(keys) |-> FixtureFrame]) :
             keys \in {<<"0", "2">>, <<"1", "2">>, <<"5">>}}

AssetLabels ==
    {None, [author |-> Author]}
    \cup {[jsonResponse |-> r, author |-> Author] : r \in AssetFrameResponses \cup GroupResponses}

\* Where the media of an asset are: a remote url, a url of the platform (with
\* or without the frame rate in the metadata), a list of frame urls, or nowhere.
AssetContents ==
    { [content |-> RemoteVideo, jsonContent |-> ""],
      [content |-> HostedContent, jsonContent |-> ""],
      [content |-> HostedContent, jsonContent |-> "",
       jsonMetadata |-> [processingParameters |-> [framesPlayedPerSecond |-> 25]]],
      [content |-> "", jsonContent |-> HostedJsonContent],
      [content |-> "", jsonContent |-> ""] }

Asset(id, external_id, contents, latest_label) ==
    [f \in DOMAIN contents \cup {"id", "externalId", "latestLabel"} |->
        CASE f = "id" -> id
          [] f = "externalId" -> external_id
          [] f = "latestLabel" -> latest_label
          [] OTHER -> contents[f]]

\* What the requests of a call are answered. A request the call cannot make
\* has the answer of the first line.
JsonContentAnswers(asset) ==
    {[ok |-> FALSE, frames |-> <<>>]}
    \cup IF asset.content = "" /\ asset.jsonContent # ""
         THEN {[ok |-> TRUE, frames |-> f] :
                  f \in {<<>>, <<HostedFrame>>, <<RemoteImage>>, <<HostedFrame, RemoteImage>>,
                         <<RemoteImage, HostedFrame>>, <<HostedFrame, HostedFrame>>}}
         ELSE {}

ImageAnswers(json_content) ==
    IF Len(json_content.frames) > 0 THEN {"ok", "download_error", "missing_env"} ELSE {"ok"}

VideoAnswers(asset) ==
    IF is_asset_served_by_kili(asset.content)
    THEN {"ok", "download_failed", "probe_failed", "extract_failed"}
    ELSE {"ok"}

ExtractedFrames(asset) == IF is_asset_served_by_kili(asset.content) THEN {1, MaxFrames} ELSE {1}

Net(json_content, image, video, video_frames) ==
    [json_content |-> json_content, image |-> image, video |-> video,
     video_frames |-> video_frames]

----------------------------------------------------------------------------
(* Specification of the asset processing: an asset, a category scope, the  *)
(* iteration order of the job ids and the answers of the network are       *)
(* drawn, then _process_asset runs on empty folders.                       *)

ImagesFolder == "images"

LabelsFolder == "labels"

InitAsset ==
    /\ pc = "asset"
    /\ \E contents \in AssetContents : \E latest_label \in AssetLabels :
          call_asset = Asset("asset_id", "video_1", contents, latest_label)
    /\ \E json_content \in JsonContentAnswers(call_asset) :
          \E image \in ImageAnswers(json_content) :
             \E video \in VideoAnswers(call_asset) :
                \E video_frames \in ExtractedFrames(call_asset) :
                   call_net = Net(json_content, image, video, video_frames)
    /\ call_category_ids \in CategoryScopes
    /\ call_job_order \in Orders(JobIdsOf(call_category_ids))
    /\ processed = None
    /\ asset_frames = None
    /\ call_job_id = ""
    /\ call_label = None
    /\ converted_annotations = Returned(<<>>)
    /\ IdleIndex
    /\ IdleFiles
    /\ IdleExport

ProcessAsset ==
    /\ pc = "asset"
    /\ asset_frames' = from_asset(call_asset, JobIdsOf(call_category_ids))
    /\ processed' = _process_asset(<<>>, call_asset, ImagesFolder, LabelsFolder,
                                   call_category_ids, call_job_order, call_net)
    /\ pc' = "processed"
    /\ UNCHANGED <<exportVars, indexVars, convertVars, fileVars, call_asset, call_net, call_job_order>>

NextAsset == ProcessAsset

SpecAsset == InitAsset /\ [][NextAsset]_vars

----------------------------------------------------------------------------
(* Claims about the processing of one asset.                               *)

\* The label of the asset is a frame group keyed "0" .. "N-1", N >= 1.
GroupSize == Cardinality(DOMAIN call_asset.latestLabel.jsonResponse)

IsDenseGroup ==
    /\ call_asset.latestLabel # None
    /\ "jsonResponse" \in DOMAIN call_asset.latestLabel
    /\ GroupSize >= 1
    /\ DOMAIN call_asset.latestLabel.jsonResponse = {ToString(i) : i \in 0..(GroupSize - 1)}

GroupFrame(i) == call_asset.latestLabel.jsonResponse[ToString(i)]

\* The content url of the asset is a url, and not one of the platform.
RemotelyServed == call_asset.content # "" /\ ~is_asset_served_by_kili(call_asset.content)

\* The jobs of the scope for which the frame holds an annotation list.
AnnotatedJobs(frame) ==
    {job_id \in JobIdsOf(call_category_ids) :
        job_id \in DOMAIN frame /\ "annotations" \in DOMAIN frame[job_id]}

\* The annotation has a bounding polygon: a first ring of normalized vertices.
HasPolygon(annotation) == HasFirstRing(annotation) /\ ~HasEmptyFirstRing(annotation)

\* The frame holds, for a job in scope, a non-empty list of annotations that
\* all have a bounding polygon.
HoldsPolygons(frame) ==
    \E job_id \in AnnotatedJobs(frame) :
        /\ Len(frame[job_id].annotations) >= 1
        /\ \A k \in 1..Len(frame[job_id].annotations) : HasPolygon(frame[job_id].annotations[k])

KnownCategoryOf(job_id, annotation) ==
    /\ Len(annotation.categories) >= 1
    /\ DictHas(call_category_ids, get_category_full_name(job_id, annotation.categories[1].name))

\* Every annotation the frame holds for the jobs in scope has a first category
\* of the scope and a first ring with at least one normalized vertex.
HoldsBoxes(frame) ==
    /\ \E job_id \in AnnotatedJobs(frame) : Len(frame[job_id].annotations) >= 1
    /\ \A job_id \in AnnotatedJobs(frame) :
          \A k \in 1..Len(frame[job_id].annotations) :
             LET annotation == frame[job_id].annotations[k]
             IN  KnownCategoryOf(job_id, annotation) /\ HasPolygon(annotation)

DigitWidth(n) == IF n < 10 THEN 1 ELSE IF n < 100 THEN 2 ELSE 3

RECURSIVE Zeros(_)
Zeros(n) == IF n <= 0 THEN "" ELSE "0" \o Zeros(n - 1)

\* <external_id>_<i>, i left-padded with zeros to the digit width of n.
FrameName(i, n) ==
    call_asset.externalId \o "_" \o Zeros(DigitWidth(n) - DigitWidth(i)) \o ToString(i)

LabelPaths(files) == {path \in DOMAIN files : files[path].kind = "labels"}

\* Exactly n label files, n remote-reference rows and n frame names, in
\* ascending frame order.
WritesEveryFrame(n) ==
    /\ processed.raised = ""
    /\ LabelPaths(processed.fs) =
          {PathJoin(LabelsFolder, FrameName(i, n) \o ".txt") : i \in 1..n}
    /\ processed.remote =
          [i \in 1..n |-> <<call_asset.externalId, call_asset.content, FrameName(i, n) \o ".txt">>]
    /\ processed.video_filenames = [i \in 1..n |-> FrameName(i, n)]

\* C6 (as claimed): for a frame group keyed "0" .. "N-1" whose frames each hold
\* a non-empty annotation list with bounding polygons for a job in scope, and
\* whose content url is not served by the platform, _process_asset writes
\* exactly N label files <external_id>_<idx+1>.txt, returns N remote-reference
\* rows in ascending frame order and the N frame names in the same order.
C6_EveryPolygonFrameIsWritten ==
    (/\ pc = "processed"
     /\ IsDenseGroup
     /\ RemotelyServed
     /\ \A i \in 0..(GroupSize - 1) : HoldsPolygons(GroupFrame(i))) =>
        WritesEveryFrame(GroupSize)

\* C6 (amended): the same outcome, for frames whose annotations for the jobs in
\* scope (at least one per frame) all have a first category of the scope and a
\* first polygon ring with at least one normalized vertex.
C6_EveryBoxFrameIsWritten ==
    (/\ pc = "processed"
     /\ IsDenseGroup
     /\ RemotelyServed
     /\ \A i \in 0..(GroupSize - 1) : HoldsBoxes(GroupFrame(i))) =>
        WritesEveryFrame(GroupSize)

\* A remote frame group of MaxFrames frames was processed: the names of its
\* first frames are padded with a zero.
C6_Witness ==
    /\ pc = "processed"
    /\ IsDenseGroup
    /\ RemotelyServed
    /\ GroupSize = MaxFrames
    /\ \A i \in 0..(GroupSize - 1) : HoldsBoxes(GroupFrame(i))
    /\ Len(processed.remote) = MaxFrames
    /\ Len(processed.video_filenames[1]) = Len(processed.video_filenames[MaxFrames])

\* C10: for every frame the loop of _process_asset has converted, a label file
\* is written if and only if the converted annotations of all jobs in scope
\* together are non-empty, and it holds exactly those annotations; no label
\* file has zero lines; a frame with an empty union has no label file, no image
\* download and no remote-reference row.
C10_LabelFileIffAnnotations ==
    pc = "processed" =>
        /\ \A path \in LabelPaths(processed.fs) : Len(processed.fs[path].lines) >= 1
        /\ \A k \in 1..Len(processed.visited) :
              LET filename == processed.visited[k].filename
                  frame_labels == processed.visited[k].frame_labels
                  path == PathJoin(LabelsFolder, filename \o ".txt")
              IN  IF Len(frame_labels) >= 1
                  THEN path \in DOMAIN processed.fs /\ processed.fs[path] = LabelFile(frame_labels)
                  ELSE /\ path \notin DOMAIN processed.fs
                       /\ \A e \in 1..Len(processed.events) :
                             ~(processed.events[e].kind = "image_download"
                               /\ processed.events[e].filename = filename)
                       /\ \A r \in 1..Len(processed.remote) :
                             processed.remote[r][3] # filename \o ".txt"
        /\ Cardinality(LabelPaths(processed.fs)) =
              Cardinality({k \in 1..Len(processed.visited) :
                              Len(processed.visited[k].frame_labels) >= 1})

\* A frame group was processed of which one frame converted to nothing and
\* another one to a record.
C10_Witness ==
    /\ pc = "processed"
    /\ \E k \in 1..Len(processed.visited) : Len(processed.visited[k].frame_labels) = 0
    /\ \E k \in 1..Len(processed.visited) : Len(processed.visited[k].frame_labels) >= 1
    /\ Cardinality(LabelPaths(processed.fs)) = 1

----------------------------------------------------------------------------
(* The export: one folder of labels per category scope, the README and the *)
(* archive.                                                                *)

\* _write_video_metadata_file: json.dumps(video_metadata, sort_keys=True), a
\* text determined by the mapping external id -> frame names.
VideoMetaFile(video_metadata) == [kind |-> "video_meta", metadata |-> video_metadata]

\* _write_remote_content_file: the header row, then the rows.
RemoteContentFile(remote_content) ==
    [kind |-> "csv", header |-> <<"external id", "url", "label file">>, rows |-> remote_content]

\* What write_labels_into_single_folder has done so far.
Pass(files) ==
    [fs |-> files, remote_content |-> <<>>, video_metadata |-> <<>>, events |-> <<>>,
     raised |-> ""]

\* events of one asset, each with the external id of the asset.
EventsOf(external_id, events) ==
    [e \in 1..Len(events) |-> [asset |-> external_id, request |-> events[e]]]

\* The loop of lines 262-268 from the k-th asset on.
RECURSIVE ProcessAssets(_, _, _, _, _, _, _)
ProcessAssets(st, asset_list, category_ids, labels_folder, images_folder, job_order, k) ==
    IF k > Len(asset_list) \/ st.raised # "" THEN st
    ELSE LET asset == asset_list[k].asset
             returned(r) ==
                 [st EXCEPT
                     !.fs = r.fs,
                     !.events = @ \o EventsOf(asset.externalId, r.events),
                     !.raised = r.raised,
                     !.video_metadata =
                         IF r.raised = "" /\ Len(r.video_filenames) > 0
                         THEN WriteFile(@, asset.externalId, r.video_filenames)
                         ELSE @,
                     !.remote_content = IF r.raised = "" THEN @ \o r.remote ELSE @]
         IN  Let(LAMBDA next : ProcessAssets(next, asset_list, category_ids, labels_folder,
                                             images_folder, job_order, k + 1),
                 Let(returned, _process_asset(st.fs, asset, images_folder, labels_folder,
                                              category_ids, job_order, asset_list[k].net)))

\* Lines 270-274: the files written after the loop.
WriteMetadataFiles(looped, images_folder, base_folder) ==
    LET with_meta == IF DOMAIN looped.video_metadata # {}
                     THEN [looped EXCEPT !.fs = WriteFile(@, PathJoin(base_folder, "video_meta.json"),
                                                         VideoMetaFile(looped.video_metadata))]
                     ELSE looped
    IN  IF looped.raised # "" THEN looped
        ELSE IF Len(looped.remote_content) > 0
        THEN [with_meta EXCEPT !.fs = WriteFile(@, PathJoin(images_folder, "remote_assets.csv"),
                                                RemoteContentFile(looped.remote_content))]
        ELSE with_meta

write_labels_into_single_folder(files, asset_list, category_ids, labels_folder, images_folder, base_folder, format, job_order) ==
    Let(LAMBDA looped : WriteMetadataFiles(looped, images_folder, base_folder),
        ProcessAssets(Pass(_write_class_file(files, base_folder, category_ids, format)),
                      asset_list, category_ids, labels_folder, images_folder, job_order, 1))

\* os.makedirs(path) for a path of the two folders parent/name under an
\* existing folder.
MakeDirs(files, parent, name) ==
    WriteFile(WriteFile(files, parent, Directory), PathJoin(parent, name), Directory)

ProjectId == "project"

ExportType == "latest"

\* create_readme_kili_file: project name, identifier and description, the
\* export date, the format and the labels exported.
ReadmeFile(project_id, format, export_type) ==
    [kind |-> "readme", project_id |-> project_id, label_format |-> format,
     export_type |-> export_type]

create_readme_kili_file(files, folder, project_id, format, export_type) ==
    WriteFile(files, PathJoin(PathJoin(folder, project_id), "README.kili.txt"),
              ReadmeFile(project_id, format, export_type))

\* shutil.make_archive(path_folder, "zip", path_folder): what lies under
\* path_folder, by its path relative to it.
IsUnder(path, folder) ==
    Len(path) > Len(folder) + 1 /\ SubSeq(path, 1, Len(folder) + 1) = folder \o "/"

MakeArchive(files, folder) ==
    LET under == {path \in DOMAIN files : IsUnder(path, folder)}
        relative(path) == SubSeq(path, Len(folder) + 2, Len(path))
    IN  [rel \in {relative(path) : path \in under} |->
            files[CHOOSE path \in under : relative(path) = rel]]

\* Leaving `with TemporaryDirectory() as root_folder`: the folder and all it
\* holds are removed.
KeepTree(files, folder) == files

RemoveTree(files, folder) ==
    [path \in {p \in DOMAIN files : ~(p = folder \/ IsUnder(p, folder))} |-> files[path]]

ZipFile(archive) == [kind |-> "zip", archive |-> archive]

\* Lines 46-51 of merge.py (44-49 of split.py): the README, the archive next
\* to the project folder, and its copy at output_filename.
Archived(files, root_folder, project_id, format, export_type, output_filename, io) ==
    LET path_folder == PathJoin(root_folder, project_id)
        path_archive == path_folder \o ".zip"
        with_readme == create_readme_kili_file(files, root_folder, project_id, format, export_type)
        zipped == WriteFile(with_readme, path_archive, ZipFile(MakeArchive(with_readme, path_folder)))
    IN  IF io = "readme_failed" THEN [raised |-> "OSError", fs |-> files]
        ELSE IF io = "archive_failed" THEN [raised |-> "OSError", fs |-> with_readme]
        ELSE [raised |-> "", fs |-> WriteFile(zipped, output_filename, zipped[path_archive])]

\* The outcome of process_and_save: the exception raised or the archive
\* copied, the requests made, and the files there are once the temporary
\* directory is left.
Exported(st, root_folder, project_id, format, export_type, output_filename, io) ==
    IF st.raised # ""
    THEN [raised |-> st.raised, archive |-> None, events |-> st.events,
          fs |-> RemoveTree(st.fs, root_folder)]
    ELSE Let(LAMBDA done :
                 [raised |-> done.raised,
                  archive |-> IF done.raised = "" THEN done.fs[output_filename].archive ELSE None,
                  events |-> st.events,
                  fs |-> RemoveTree(done.fs, root_folder)],
             Archived(st.fs, root_folder, project_id, format, export_type, output_filename, io))

RootFolder == "tmp"

\* YoloMergeExporter.process_and_save
merge_process_and_save(files, asset_list, jobs, format, job_order, output_filename, io) ==
    LET categories == _get_merged_categories(jobs, get_project_and_init_ml_task,
                                             get_project_and_init_tool)
        base_folder == PathJoin(RootFolder, ProjectId)
        images_folder == PathJoin(base_folder, "images")
        labels_folder == PathJoin(base_folder, "labels")
        folders == MakeDirs(MakeDirs(WriteFile(files, RootFolder, Directory), base_folder, "images"),
                            base_folder, "labels")
    IN  Let(LAMBDA written : Exported(written, RootFolder, ProjectId, format, ExportType,
                                      output_filename, io),
            write_labels_into_single_folder(folders, asset_list, categories, labels_folder,
                                            images_folder, base_folder, format, job_order))

\* The iteration order of the job ids of a scope of at most one job.
JobOrderOf(category_ids) == CHOOSE order \in Orders(JobIdsOf(category_ids)) : TRUE

\* The loop of _write_jobs_labels_into_split_folders from the j-th job on.
RECURSIVE SplitFolders(_, _, _, _, _, _, _)
SplitFolders(st, asset_list, by_job, root_folder, images_folder, format, j) ==
    IF j > Len(by_job) \/ st.raised # "" THEN st
    ELSE LET base_folder == PathJoin(PathJoin(root_folder, ProjectId), by_job[j].key)
             labels_folder == PathJoin(base_folder, "labels")
         IN  Let(LAMBDA pass : SplitFolders([pass EXCEPT !.events = st.events \o pass.events],
                                            asset_list, by_job, root_folder, images_folder,
                                            format, j + 1),
                 write_labels_into_single_folder(
                     MakeDirs(st.fs, base_folder, "labels"), asset_list, by_job[j].value,
                     labels_folder, images_folder, base_folder, format,
                     JobOrderOf(by_job[j].value)))

\* The merged export whatever the split option.
MergedAnyway(files, asset_list, jobs, format, output_filename, io) ==
    merge_process_and_save(files, asset_list, jobs, format,
                           JobOrderOf(_get_merged_categories(jobs, get_project_and_init_ml_task,
                                                             get_project_and_init_tool)),
                           output_filename, io)

\* YoloSplitExporter.process_and_save
split_process_and_save(files, asset_list, jobs, format, output_filename, io) ==
    LET project_folder == PathJoin(RootFolder, ProjectId)
        images_folder == PathJoin(project_folder, "images")
    IN  Let(LAMBDA written : Exported(written, RootFolder, ProjectId, format, ExportType,
                                      output_filename, io),
            Let(LAMBDA by_job : SplitFolders(Pass(MakeDirs(WriteFile(files, RootFolder, Directory),
                                                           project_folder, "images")),
                                             asset_list, by_job, RootFolder, images_folder,
                                             format, 1),
                _get_categories_by_job(jobs, get_project_and_init_ml_task,
                                       get_project_and_init_tool)))

----------------------------------------------------------------------------
(* Inputs of the export: interfaces, and assets with the network's answers.*)

ClassificationJob ==
    [mlTask |-> "CLASSIFICATION", tools |-> {"rectangle"}, categories |-> <<"OBJECT_A">>]

ModelJob ==
    [mlTask |-> "OBJECT_DETECTION", tools |-> {"rectangle"}, isModel |-> TRUE,
     categories |-> <<"OBJECT_A">>]

ExportInterfaces ==
    { Interface(<<>>, <<>>),
      Interface(<<"JOB_0">>, <<ClassificationJob>>),
      Interface(<<"JOB_0", "JOB_1">>, <<ModelJob, ClassificationJob>>),
      Interface(<<"JOB_0">>, <<QualifyingJob(<<"OBJECT_A", "OBJECT_B">>)>>),
      Interface(<<"JOB_0", "JOB_1">>,
                <<QualifyingJob(<<"OBJECT_A", "OBJECT_B">>), QualifyingJob(<<"OBJECT_A">>)>>),
      Interface(<<"JOB_1", "JOB_0">>,
                <<QualifyingJob(<<"OBJECT_A">>), QualifyingJob(<<"OBJECT_A", "OBJECT_B">>)>>),
      Interface(<<"JOB_0", "JOB_1">>, <<QualifyingJob(<<>>), QualifyingJob(<<"OBJECT_A">>)>>) }

Remote(url) == [content |-> url, jsonContent |-> ""]

SingleFrame(response) == [jsonResponse |-> response, author |-> Author]

TwoFrames == SingleFrame(Group(DenseKeys(2), <<FixtureFrame, FixtureFrame>>))

\* The answers to requests that are not made.
Unasked == Net([ok |-> FALSE, frames |-> <<>>], "ok", "ok", 1)

WithNet(asset, net) == [asset |-> asset, net |-> net]

ExportAssets ==
    { WithNet(Asset("id_1", "car_1", Remote(RemoteImage), SingleFrame(FixtureFrame)), Unasked),
      WithNet(Asset("id_2", "video_1", Remote(RemoteVideo), TwoFrames), Unasked),
      WithNet(Asset("id_3", "car_2", Remote(RemoteImage), None), Unasked),
      WithNet(Asset("id_4", "car_3", Remote(RemoteImage),
                    SingleFrame([j \in {"JOB_1"} |-> [annotations |-> FixtureAnnotations]])),
              Unasked),
      WithNet(Asset("id_5", "video_2", Remote(HostedContent), TwoFrames),
              Net([ok |-> FALSE, frames |-> <<>>], "ok", "ok", 2)),
      WithNet(Asset("id_5", "video_2", Remote(HostedContent), TwoFrames),
              Net([ok |-> FALSE, frames |-> <<>>], "ok", "probe_failed", 1)),
      WithNet(Asset("id_6", "car_4", Remote(RemoteImage), SingleFrame(OneJobFrame(<<>>))), Unasked),
      WithNet(Asset("id_7", "car_5", [content |-> "", jsonContent |-> HostedJsonContent],
                    SingleFrame(FixtureFrame)),
              Net([ok |-> TRUE, frames |-> <<HostedFrame>>], "ok", "ok", 1)),
      WithNet(Asset("id_7", "car_5", [content |-> "", jsonContent |-> HostedJsonContent],
                    SingleFrame(FixtureFrame)),
              Net([ok |-> TRUE, frames |-> <<HostedFrame>>], "download_error", "ok", 1)),
      WithNet(Asset("id_8", "car_6", Remote(RemoteImage),
                    SingleFrame(OneJobFrame(<<[categories |-> <<Category("OBJECT_C")>>,
                                               boundingPoly |-> <<FixtureRing>>]>>))),
              Unasked),
      WithNet(Asset("id_9", "car_7", Remote(HostedContent), SingleFrame(FixtureFrame)), Unasked) }

----------------------------------------------------------------------------
(* Specification of the export: an interface, a format and the assets are  *)
(* drawn, then one of the two exporters processes and saves them.          *)

OutputFilename == "export.zip"

\* What an earlier export left at output_filename.
PreviousExport == ZipFile([path \in {"README.kili.txt"} |-> ReadmeFile(ProjectId, YoloV4, ExportType)])

Init ==
    /\ pc = "export"
    /\ json_interface \in ExportInterfaces
    /\ label_format \in {YoloV4, YoloV5}
    /\ split_option \in {"SPLIT_FOLDER", "MERGED_FOLDER"}
    /\ export_io \in {"ok", "readme_failed", "archive_failed"}
    /\ assets \in DistinctSeqs(ExportAssets, MaxAssets)
    /\ call_job_order \in Orders(JobIdsOf(_get_merged_categories(
                                     json_interface, get_project_and_init_ml_task,
                                     get_project_and_init_tool)))
    /\ exported = None
    /\ merged_categories_id = NoDict
    /\ categories_by_job = NoDict
    /\ fs \in {<<>>, [path \in {OutputFilename} |-> PreviousExport]}
    /\ call_asset = None
    /\ call_net = None
    /\ processed = None
    /\ asset_frames = None
    /\ IdleConvert

\* export_project, split_option other than SPLIT_FOLDER.
MergeProcessAndSave ==
    /\ pc = "export"
    /\ split_option # "SPLIT_FOLDER"
    /\ exported' = merge_process_and_save(fs, assets, json_interface, label_format,
                                          call_job_order, OutputFilename, export_io)
    /\ fs' = exported'.fs
    /\ pc' = "merged"
    /\ UNCHANGED <<indexVars, convertVars, label_format, assetVars, assets, split_option, export_io>>

\* export_project, split_option SPLIT_FOLDER.
SplitProcessAndSave ==
    /\ pc = "export"
    /\ split_option = "SPLIT_FOLDER"
    /\ exported' = split_process_and_save(fs, assets, json_interface, label_format,
                                          OutputFilename, export_io)
    /\ fs' = exported'.fs
    /\ pc' = "split"
    /\ UNCHANGED <<indexVars, convertVars, label_format, assetVars, assets, split_option, export_io>>

Next == MergeProcessAndSave \/ SplitProcessAndSave

Spec == Init /\ [][Next]_vars

----------------------------------------------------------------------------
(* Claims about the export.                                                *)

Finished == pc \in {"merged", "split"} /\ exported # None /\ exported.raised = ""

RemoteAssetsCsv == PathJoin("images", "remote_assets.csv")

\* The asset has a row in remote_assets.csv of the archive.
HasRow(asset) ==
    /\ RemoteAssetsCsv \in DOMAIN exported.archive
    /\ \E r \in 1..Len(exported.archive[RemoteAssetsCsv].rows) :
          exported.archive[RemoteAssetsCsv].rows[r][1] = asset.externalId

\* A request was made for the media of the asset.
WasRequested(asset) ==
    \E e \in 1..Len(exported.events) : exported.events[e].asset = asset.externalId

\* The archive holds a label file of the asset: <folder>/labels/<external_id>.txt
\* or <folder>/labels/<external_id>_<frame>.txt.
IsLabelFileOf(path, asset) ==
    LET stem == "labels/" \o asset.externalId
    IN  \E n \in 0..Len(path) :
            /\ n + Len(stem) < Len(path)
            /\ SubSeq(path, n + 1, n + Len(stem)) = stem
            /\ SubSeq(path, n + Len(stem) + 1, n + Len(stem) + 1) \in {".", "_"}

IsLabelled(asset) ==
    \E path \in DOMAIN exported.archive :
        exported.archive[path].kind = "labels" /\ IsLabelFileOf(path, asset)

\* C7: an asset whose content url is not served by the platform triggers no
\* download attempt (image, or video download and extraction), and it has a
\* row in remote_assets.csv of the finished export. (Stated for the assets of
\* which the export holds a label file: the others are rowless by the rule
\* that a frame without converted annotations leaves no trace.)
C7_RemoteAssetListedNeverDownloaded ==
    Finished =>
        \A k \in 1..Len(assets) :
            LET asset == assets[k].asset
            IN  (/\ asset.content # ""
                 /\ ~is_asset_served_by_kili(asset.content)
                 /\ IsLabelled(asset)) =>
                    ~WasRequested(asset) /\ HasRow(asset)

NoQualifyingJob ==
    \A j \in 1..Len(json_interface) :
        JobIsSkipped(json_interface[j].value, get_project_and_init_ml_task,
                     get_project_and_init_tool)

ClassFileName == IF label_format = YoloV4 THEN "classes.txt" ELSE "data.yaml"

EmptyClassFile == IF label_format = YoloV4 THEN TextFile("") ELSE TextFile("nc: 0\nnames: []\n")

\* C8: for an interface without qualifying job the export completes without
\* error in merged and in split mode, the archive holds an empty class file,
\* and besides it only folders and the README.
C8_EmptyExportForNoQualifyingJob ==
    (pc \in {"merged", "split"} /\ NoQualifyingJob /\ export_io = "ok") =>
        /\ exported.raised = ""
        /\ ClassFileName \in DOMAIN exported.archive
        /\ exported.archive[ClassFileName] = EmptyClassFile
        /\ \A path \in DOMAIN exported.archive :
              \/ path \in {ClassFileName, "README.kili.txt"}
              \/ exported.archive[path] = Directory

\* ---------------------------------------------------------------------------
\* The output path and the temporary directory.

\* The files of the temporary directory that are still there.
Scratch(files) == {path \in DOMAIN files : path = RootFolder \/ IsUnder(path, RootFolder)}

\* C11: an export that raises before the copy leaves the files as they were,
\* output path included; an export that succeeds changes nothing but the
\* output path, which then holds the archive; and on both ways out nothing of
\* the temporary directory is left.
C11_OutputOnlyOnSuccess ==
    [][pc = "export" =>
        /\ Scratch(fs') = {}
        /\ exported'.raised # "" => fs' = fs
        /\ exported'.raised = "" => fs' = WriteFile(fs, OutputFilename, ZipFile(exported'.archive))
      ]_vars

\* An export that had written everything and then failed to archive, with an
\* earlier export's file still at the output path.
C11_Witness ==
    /\ pc \in {"merged", "split"}
    /\ export_io = "archive_failed"
    /\ exported.raised = "OSError"
    /\ OutputFilename \in DOMAIN fs
    /\ fs[OutputFilename] = PreviousExport
    /\ Len(assets) > 0

\* ---------------------------------------------------------------------------
\* Errors of one asset and the export as a whole.

\* What processing the k-th asset does when it is the only one, under the
\* merged categories of the interface.
Alone(k) ==
    _process_asset(<<>>, assets[k].asset, ImagesFolder, LabelsFolder,
                   _get_merged_categories(json_interface, get_project_and_init_ml_task,
                                          get_project_and_init_tool),
                   call_job_order, assets[k].net)

HasLabelFile(files) == \E path \in DOMAIN files : files[path].kind = "labels"

\* C12: when the only failures among the assets are lookups of a category
\* that the scope does not hold, the export still ends with its archive, and
\* the archive holds the label files of the assets that convert.
C12_LookupErrorSparesTheExport ==
    (/\ pc \in {"merged", "split"}
     /\ export_io = "ok"
     /\ \A k \in 1..Len(assets) : Alone(k).raised \in {"", "KeyError"}
     /\ \E k \in 1..Len(assets) : Alone(k).raised = "KeyError") =>
        /\ exported.raised = ""
        /\ \A k \in 1..Len(assets) :
              (Alone(k).raised = "" /\ HasLabelFile(Alone(k).fs)) => IsLabelled(assets[k].asset)

\* No other asset of the export has the external id of the k-th.
OnlyOfItsName(k) ==
    \A other \in 1..Len(assets) :
        other # k => assets[other].asset.externalId # assets[k].asset.externalId

\* The image downloads of the asset that were refused.
RefusedDownloads(asset) ==
    {e \in 1..Len(exported.events) :
        /\ exported.events[e].asset = asset.externalId
        /\ exported.events[e].request.kind = "image_download"
        /\ ~exported.events[e].request.ok}

\* The passes over the assets: one, or one for each job of the split.
Passes ==
    IF pc = "merged" THEN 1
    ELSE Len(_get_categories_by_job(json_interface, get_project_and_init_ml_task,
                                    get_project_and_init_tool))

\* C13: a refused download of a single-frame image never ends the export: the
\* export raises only what an asset raises by itself or what the README and
\* the archive raise; the image is requested once in a pass; and the finished
\* archive holds the label file of the asset and no image of it. (The requests
\* are told apart by external id, so the last two are stated for an asset
\* that shares its external id with no other.)
C13_DownloadFailureIsNotFatal ==
    pc \in {"merged", "split"} =>
        /\ exported.raised # "DownloadError"
        /\ (export_io = "ok" /\ \A k \in 1..Len(assets) : Alone(k).raised = "") =>
               exported.raised = ""
        /\ \A k \in 1..Len(assets) :
              LET asset == assets[k].asset
              IN  OnlyOfItsName(k) =>
                  /\ Cardinality(RefusedDownloads(asset)) <= Passes
                  /\ (RefusedDownloads(asset) # {} /\ exported.raised = "") =>
                        /\ IsLabelled(asset)
                        /\ \A e \in RefusedDownloads(asset) :
                              PathJoin("images", exported.events[e].request.filename \o ".jpg")
                                  \notin DOMAIN exported.archive

\* A finished export of two assets, the first with a refused download, the
\* second with its label file in the archive.
C13_Witness ==
    /\ Finished
    /\ Len(assets) = 2
    /\ RefusedDownloads(assets[1].asset) # {}
    /\ IsLabelled(assets[1].asset)
    /\ IsLabelled(assets[2].asset)

\* ---------------------------------------------------------------------------
\* The layout of the archive.

QualifyingJobs ==
    {json_interface[j].key : j \in {i \in 1..Len(json_interface) :
        ~JobIsSkipped(json_interface[i].value, get_project_and_init_ml_task,
                      get_project_and_init_tool)}}

EndsWith(path, suffix) ==
    Len(path) >= Len(suffix) /\ SubSeq(path, Len(path) - Len(suffix) + 1, Len(path)) = suffix

StartsWith(path, prefix) ==
    Len(path) >= Len(prefix) /\ SubSeq(path, 1, Len(prefix)) = prefix

\* The paths of the archive that are a folder or file of that name, at any depth.
Named(name) ==
    {path \in DOMAIN exported.archive : path = name \/ EndsWith(path, "/" \o name)}

\* The label of the asset, or of one of its frames, has annotations under the job.
HasAnnotationsFor(asset, job_id) ==
    /\ asset.latestLabel # None
    /\ LET json_response == asset.latestLabel.jsonResponse
       IN  \/ FrameHasAnnotations(json_response, {job_id})
           \/ \E key \in DOMAIN json_response :
                 FrameHasAnnotations(json_response[key], {job_id})

\* The label files of the job's folder that are named after the asset.
JobLabelFilesOf(job_id, asset) ==
    {path \in DOMAIN exported.archive :
        /\ exported.archive[path].kind = "labels"
        /\ \/ StartsWith(path, job_id \o "/labels/" \o asset.externalId \o ".")
           \/ StartsWith(path, job_id \o "/labels/" \o asset.externalId \o "_")}

\* C14: the split option alone decides the layout of a finished export. Split:
\* one images folder, for every qualifying job a folder of its name with its
\* own labels folder and class file, no labels folder or class file at the
\* root or anywhere else, and a job's labels folder holds a label file of an
\* asset only if the asset has annotations for that job. Merged: one images
\* folder, one labels folder and one class file, all at the root. The README
\* is at the root in both.
C14_LayoutFollowsSplitOption ==
    Finished =>
        /\ "README.kili.txt" \in DOMAIN exported.archive
        /\ Named("images") = {"images"}
        /\ exported.archive["images"] = Directory
        /\ pc = (IF split_option = "SPLIT_FOLDER" THEN "split" ELSE "merged")
        /\ IF split_option = "SPLIT_FOLDER"
           THEN /\ Named("labels") = {PathJoin(job_id, "labels") : job_id \in QualifyingJobs}
                /\ Named(ClassFileName) = {PathJoin(job_id, ClassFileName) : job_id \in QualifyingJobs}
                /\ \A job_id \in QualifyingJobs :
                      /\ exported.archive[job_id] = Directory
                      /\ exported.archive[PathJoin(job_id, "labels")] = Directory
                      /\ \A k \in 1..Len(assets) :
                            JobLabelFilesOf(job_id, assets[k].asset) # {} =>
                                HasAnnotationsFor(assets[k].asset, job_id)
           ELSE /\ Named("labels") = {"labels"}
                /\ exported.archive["labels"] = Directory
                /\ Named(ClassFileName) = {ClassFileName}

\* A finished split export of two qualifying jobs and an asset that has a
\* label file under one of them only.
C14_Witness ==
    /\ Finished
    /\ split_option = "SPLIT_FOLDER"
    /\ Cardinality(QualifyingJobs) = 2
    /\ \E k \in 1..Len(assets) :
       \E job_id, other \in QualifyingJobs :
          /\ JobLabelFilesOf(job_id, assets[k].asset) # {}
          /\ JobLabelFilesOf(other, assets[k].asset) = {}

\* ---------------------------------------------------------------------------
\* The frames of an asset.

\* The indices of the label's frames that hold, for a job in scope, a
\* non-empty list of annotations.
AnnotatedIndices ==
    IF call_asset.latestLabel = None \/ "jsonResponse" \notin DOMAIN call_asset.latestLabel
    THEN {}
    ELSE {i \in 0..(GroupSize - 1) :
            /\ ToString(i) \in DOMAIN call_asset.latestLabel.jsonResponse
            /\ AnnotatedJobs(GroupFrame(i)) # {}
            /\ \E job_id \in AnnotatedJobs(GroupFrame(i)) :
                  Len(GroupFrame(i)[job_id].annotations) > 0}

\* C15 (as claimed): for every asset and every set of job ids from_asset
\* returns a frames mapping that is not empty, and when no frame is retained
\* the mapping is the single frame -1 |-> the asset itself.
C15_FramesNeverEmpty ==
    pc = "processed" =>
        /\ asset_frames.raised = ""
        /\ Len(asset_frames.value.frames) >= 1
        /\ AnnotatedIndices = {} =>
              asset_frames.value.frames = <<[idx |-> -1, frame |-> call_asset]>>

\* C16 (as claimed): the k-th frame the loop of _process_asset names is named
\* <external_id>_<idx+1>, idx+1 left-padded with zeros to the digit width of
\* the number of frames, when it is a member of the group, and <external_id>
\* when it is the frame -1, a label keyed by frame indices included.
C16_FilenameRule ==
    (pc = "processed" /\ asset_frames.raised = "") =>
        \A k \in 1..Len(processed.visited) :
            LET idx == asset_frames.value.frames[k].idx
            IN  processed.visited[k].filename =
                    IF idx = -1 THEN call_asset.externalId
                    ELSE FrameName(idx + 1, asset_frames.value.number_frames)

\* The indices of the frames from_asset returned, the synthetic one left out.
RetainedIndices ==
    {asset_frames.value.frames[k].idx : k \in 1..Len(asset_frames.value.frames)} \ {-1}

\* Nothing the call wrote or returned bears the name of the frame.
LeavesNoTrace(name) ==
    /\ PathJoin(LabelsFolder, name \o ".txt") \notin DOMAIN processed.fs
    /\ PathJoin(ImagesFolder, name \o ".jpg") \notin DOMAIN processed.fs
    /\ \A r \in 1..Len(processed.remote) : processed.remote[r][3] # name \o ".txt"
    /\ \A v \in 1..Len(processed.video_filenames) : processed.video_filenames[v] # name

\* C17: for a label with frames keyed "0" .. "N-1", from_asset retains the
\* frame at an index if and only if a job in scope has a non-empty list of
\* annotations there; the retained frames come in ascending order under their
\* own indices, each with its own response; number_frames is N; and a frame
\* that is dropped leaves no file, row or name.
C17_RetainedIffAnnotated ==
    (pc = "processed" /\ IsDenseGroup) =>
        /\ asset_frames.raised = ""
        /\ asset_frames.value.number_frames = GroupSize
        /\ RetainedIndices = AnnotatedIndices
        /\ \A k \in 1..Len(asset_frames.value.frames) :
              LET idx == asset_frames.value.frames[k].idx
              IN  /\ k > 1 => asset_frames.value.frames[k - 1].idx < idx
                  /\ idx # -1 => asset_frames.value.frames[k].frame =
                                    [latestLabel |-> [jsonResponse |-> GroupFrame(idx)]]
        /\ \A i \in (0..(GroupSize - 1)) \ AnnotatedIndices :
              LeavesNoTrace(FrameName(i + 1, GroupSize))

\* A group of two frames of which the first was dropped and the second was
\* retained under index 1 and written as <external_id>_2.
C17_Witness ==
    /\ pc = "processed"
    /\ IsDenseGroup
    /\ GroupSize = 2
    /\ AnnotatedIndices = {1}
    /\ asset_frames.value.frames[1].idx = 1
    /\ PathJoin(LabelsFolder, FrameName(2, 2) \o ".txt") \in DOMAIN processed.fs

\* ---------------------------------------------------------------------------
\* The order of the frame names.

Digits == {"0", "1", "2", "3", "4", "5", "6", "7", "8", "9"}

\* The code point of a digit.
Code(char) ==
    CASE char = "0" -> 48 [] char = "1" -> 49 [] char = "2" -> 50 [] char = "3" -> 51
      [] char = "4" -> 52 [] char = "5" -> 53 [] char = "6" -> 54 [] char = "7" -> 55
      [] char = "8" -> 56 [] char = "9" -> 57

CharAt(text, n) == SubSeq(text, n, n)

\* text < other as Python compares strings: at the first place where they
\* differ, or by length when one is a prefix of the other.
LexLess(text, other) ==
    \E n \in 0..Len(text) :
        /\ n <= Len(other)
        /\ SubSeq(text, 1, n) = SubSeq(other, 1, n)
        /\ IF n = Len(text) THEN n < Len(other)
           ELSE /\ n < Len(other)
                /\ CharAt(text, n + 1) # CharAt(other, n + 1)
                /\ Code(CharAt(text, n + 1)) < Code(CharAt(other, n + 1))

\* The name ends with "_" and exactly `width` digits after the external id.
HasIndexSuffix(name, width) ==
    /\ Len(name) = Len(call_asset.externalId) + 1 + width
    /\ SubSeq(name, 1, Len(call_asset.externalId) + 1) = call_asset.externalId \o "_"
    /\ \A n \in (Len(call_asset.externalId) + 2)..Len(name) : CharAt(name, n) \in Digits

\* C18: the names get_label_filename gives the retained frames of a group are
\* in lexicographic order as their indices are in numeric order, they are
\* distinct, and the index suffix of each has exactly len(str(N)) digits,
\* N the number of frames of the label.
C18_FrameNamesSortAsIndices ==
    (pc = "processed" /\ asset_frames.raised = "") =>
        LET label_frames == asset_frames.value
        IN  /\ \A i \in RetainedIndices :
                  HasIndexSuffix(get_label_filename(label_frames, i),
                                 DigitWidth(label_frames.number_frames))
            /\ \A i, j \in RetainedIndices :
                  i < j => /\ LexLess(get_label_filename(label_frames, i),
                                      get_label_filename(label_frames, j))
                           /\ get_label_filename(label_frames, i) #
                                  get_label_filename(label_frames, j)

\* A group of MaxFrames frames, all retained and named: the names of the
\* ninth and the tenth frame differ in the padding.
C18_Witness ==
    /\ pc = "processed"
    /\ asset_frames.raised = ""
    /\ RetainedIndices = 0..(MaxFrames - 1)
    /\ Len(processed.video_filenames) = MaxFrames
    /\ processed.video_filenames[MaxFrames - 1] =
          get_label_filename(asset_frames.value, MaxFrames - 2)
    /\ LexLess(processed.video_filenames[MaxFrames - 1], processed.video_filenames[MaxFrames])

\* ---------------------------------------------------------------------------
\* The order of lookup and skip in the conversion.

\* The annotations of the job on which the loop stops: no first category, a
\* first category the scope does not hold, or a first ring without a vertex.
Stopping ==
    {i \in 1..Len(JobAnnotations) :
        ~KnownFirstCategory(JobAnnotations[i]) \/ HasEmptyFirstRing(JobAnnotations[i])}

\* C19: the conversion returns the empty list when the label is absent, has no
\* jsonResponse, has not the job id, or the job has no annotations key.
\* Otherwise the first category of every annotation is looked up before the
\* annotation is examined: the call raises KeyError at the first annotation
\* whose first category the scope does not hold, with or without a bounding
\* polygon; and when no annotation stops the loop, the call returns one record
\* for each annotation that has a first ring with normalizedVertices, taken
\* from that ring alone, in order, and none for the others.
C19_LookupThenSkip ==
    pc = "converted" =>
        IF ~JobHasAnnotations THEN converted_annotations = Returned(<<>>)
        ELSE IF Stopping = {}
        THEN converted_annotations =
                 Returned(ExpectedRecords(SelectSeq(JobAnnotations, HasFirstRing)))
        ELSE LET annotation == JobAnnotations[Least(Stopping)]
             IN  converted_annotations =
                     Raised(IF Len(annotation.categories) = 0 THEN "IndexError"
                            ELSE IF ~KnownFirstCategory(annotation) THEN "KeyError"
                            ELSE "ValueError")

\* The call raised KeyError at an annotation that has no bounding polygon,
\* after one of a known category that it skipped.
C19_Witness ==
    /\ pc = "converted"
    /\ JobHasAnnotations
    /\ Len(JobAnnotations) = 2
    /\ KnownFirstCategory(JobAnnotations[1])
    /\ ~HasFirstRing(JobAnnotations[1])
    /\ Len(JobAnnotations[2].categories) = 1
    /\ ~KnownFirstCategory(JobAnnotations[2])
    /\ "boundingPoly" \notin DOMAIN JobAnnotations[2]
    /\ converted_annotations = Raised("KeyError")

\* ---------------------------------------------------------------------------
\* The range of the records.

\* 0 <= value <= 1 for a quotient of thousandths.
InUnitInterval(quotient) ==
    0 <= quotient.num /\ quotient.num <= 1000 * quotient.den

\* centre - extent / 2 >= 0 and centre + extent / 2 <= 1, in thousandths.
BoxInUnitInterval(centre, extent) ==
    /\ 0 <= 2 * centre.num - extent * centre.den
    /\ 2 * centre.num + extent * centre.den <= 2000 * centre.den

\* C20 (as claimed): every record the conversion returns has its centre and
\* its extent in [0, 1], the extent not negative, and the box inside the unit
\* square.
C20_RecordsInUnitSquare ==
    pc = "converted" =>
        \A k \in 1..Len(converted_annotations.value) :
            LET record == converted_annotations.value[k]
            IN  /\ InUnitInterval(record[2])
                /\ InUnitInterval(record[3])
                /\ 0 <= record[4] /\ record[4] <= 1000
                /\ 0 <= record[5] /\ record[5] <= 1000
                /\ BoxInUnitInterval(record[2], record[4])
                /\ BoxInUnitInterval(record[3], record[5])

\* ---------------------------------------------------------------------------
\* The video of a frame group.

\* The requests of the given kind that the call made.
Requests(kind) == {e \in 1..Len(processed.events) : processed.events[e].kind = kind}

\* The loop over the frames ended without an exception: the call returned, or
\* cut_video raised.
LoopEnded == pc = "processed" /\ asset_frames.raised = "" /\ processed.raised \in {"", "ffmpeg.Error"}

\* C21 (as claimed): cut_video is called if and only if no frame urls were
\* resolved, a frame of the group was retained for the jobs in scope, and the
\* content url of the asset is served by the platform.
C21_VideoCutIffRetainedHostedGroup ==
    LoopEnded =>
        (Requests("video_download") # {} <=>
            /\ Len(get_content_frames(call_asset, call_net)) = 0
            /\ RetainedIndices # {}
            /\ is_asset_served_by_kili(call_asset.content))

\* The requests of the given kind that the export made for the asset.
RequestsFor(asset, kind) ==
    {e \in 1..Len(exported.events) :
        /\ exported.events[e].asset = asset.externalId
        /\ exported.events[e].request.kind = kind}

\* C22 (as claimed): during one export the video of an asset is downloaded at
\* most once, in merged and in split mode.
C22_VideoDownloadedOnce ==
    pc \in {"merged", "split"} =>
        \A k \in 1..Len(assets) :
            OnlyOfItsName(k) =>
                Cardinality(RequestsFor(assets[k].asset, "video_download")) <= 1

ImagePaths(files) == {path \in DOMAIN files : files[path].kind = "image"}

\* C23 (as claimed): a refused video download, a failed probe and a failed
\* extraction each end the call with an exception, nothing is requested twice,
\* and after a refused download cut_video neither probes nor extracts nor
\* copies a frame.
C23_VideoFailureAborts ==
    pc = "processed" =>
        /\ \A kind \in {"video_download", "probe", "extract"} :
              /\ Cardinality(Requests(kind)) <= 1
              /\ \A e \in Requests(kind) :
                    ~processed.events[e].ok =>
                        processed.raised # "" /\ ImagePaths(processed.fs) = {}
        /\ \A e \in Requests("video_download") :
              ~processed.events[e].ok => Requests("probe") = {} /\ Requests("extract") = {}

\* ---------------------------------------------------------------------------
\* The media of a frame.

\* The label is a frame group and the frame urls resolved from jsonContent
\* are all served by the platform.
HostedFrameGroup ==
    /\ pc = "processed"
    /\ asset_frames.raised = ""
    /\ asset_frames.value.is_frame_group
    /\ Len(get_content_frames(call_asset, call_net)) > 0
    /\ \A n \in 1..Len(get_content_frames(call_asset, call_net)) :
          is_asset_served_by_kili(get_content_frames(call_asset, call_net)[n])

\* C24: for a frame group with frame urls served by the platform nothing
\* materializes the media: no image is requested, no remote-reference row is
\* recorded, the video is not requested, and no image file is written, while
\* the label files are.
C24_HostedGroupFramesNotMaterialized ==
    HostedFrameGroup =>
        /\ Requests("image_download") = {}
        /\ Requests("video_download") = {}
        /\ processed.remote = <<>>
        /\ ImagePaths(processed.fs) = {}
        /\ processed.raised = "" =>
              Cardinality(LabelPaths(processed.fs)) =
                  Cardinality({k \in 1..Len(processed.visited) :
                                  Len(processed.visited[k].frame_labels) >= 1})

\* A hosted group of two frames, both with a url, both written as label files.
C24_Witness ==
    /\ HostedFrameGroup
    /\ processed.raised = ""
    /\ RetainedIndices = {0, 1}
    /\ Cardinality(LabelPaths(processed.fs)) = 2

\* ---------------------------------------------------------------------------
\* Assets without a label.

Unlabelled(k) == assets[k].asset.latestLabel = None

\* C25 (as claimed): an export with an asset whose latest label is null, and
\* whose other assets raise nothing, ends without error; the archive holds no
\* label file and no row of the unlabelled asset, nothing is requested for it,
\* and the label files of the other assets are there.
C25_UnlabelledAssetIsSkipped ==
    (/\ pc \in {"merged", "split"}
     /\ export_io = "ok"
     /\ \E k \in 1..Len(assets) : Unlabelled(k)
     /\ \A k \in 1..Len(assets) : ~Unlabelled(k) => Alone(k).raised = "") =>
        /\ exported.raised = ""
        /\ \A k \in 1..Len(assets) :
              IF Unlabelled(k)
              THEN /\ ~IsLabelled(assets[k].asset)
                   /\ ~HasRow(assets[k].asset)
                   /\ ~WasRequested(assets[k].asset)
              ELSE HasLabelFile(Alone(k).fs) => IsLabelled(assets[k].asset)

\* ---------------------------------------------------------------------------
\* The frame names of video_meta.json.

VideoMetaPaths == {path \in DOMAIN exported.archive : exported.archive[path].kind = "video_meta"}

\* The folder of the archive in which the file is, with its trailing "/", or
\* "" for a file at the root.
FolderOf(path, name) == SubSeq(path, 1, Len(path) - Len(name))

\* C26 (as claimed): in a finished export every frame name that a
\* video_meta.json lists has its label file <name>.txt in the labels folder
\* next to it.
C26_ListedFramesHaveLabelFiles ==
    Finished =>
        \A path \in VideoMetaPaths :
            \A external_id \in DOMAIN exported.archive[path].metadata :
                \A n \in 1..Len(exported.archive[path].metadata[external_id]) :
                    (FolderOf(path, "video_meta.json") \o "labels/"
                        \o exported.archive[path].metadata[external_id][n] \o ".txt")
                    \in DOMAIN exported.archive

\* ---------------------------------------------------------------------------
\* The rows of remote_assets.csv in split mode.

RemoteRows ==
    IF RemoteAssetsCsv \in DOMAIN exported.archive
    THEN exported.archive[RemoteAssetsCsv].rows ELSE <<>>

\* The label files, in the folders of all jobs, of the assets whose content
\* url is a url that the platform does not serve.
RemoteLabelFiles ==
    UNION {JobLabelFilesOf(job_id, assets[k].asset) :
              job_id \in QualifyingJobs,
              k \in {n \in 1..Len(assets) :
                        /\ assets[n].asset.content # ""
                        /\ ~is_asset_served_by_kili(assets[n].asset.content)}}

\* C27 (as claimed): after a split export images/remote_assets.csv holds one
\* row for every label file, in the folders of all jobs, of an asset whose
\* media the platform does not serve.
C27_SplitKeepsRemoteRows ==
    (Finished /\ split_option = "SPLIT_FOLDER") =>
        /\ Len(RemoteRows) = Cardinality(RemoteLabelFiles)
        /\ \A job_id \in QualifyingJobs :
           \A k \in 1..Len(assets) :
           \A path \in JobLabelFilesOf(job_id, assets[k].asset) :
              path \in RemoteLabelFiles =>
                 \E r \in 1..Len(RemoteRows) :
                    /\ RemoteRows[r][1] = assets[k].asset.externalId
                    /\ job_id \o "/labels/" \o RemoteRows[r][3] = path

\* ---------------------------------------------------------------------------
\* What becomes of the media of a frame that has a label file.

HasImage(filename) == PathJoin(ImagesFolder, filename \o ".jpg") \in DOMAIN processed.fs

HasRemoteRow(filename) ==
    \E r \in 1..Len(processed.remote) : processed.remote[r][3] = filename \o ".txt"

HasRefusedDownload(filename) ==
    \E e \in Requests("image_download") :
        processed.events[e].filename = filename /\ ~processed.events[e].ok

\* The frame is the only frame of an image that the platform serves at the
\* content url of the asset.
HostedSingleImage ==
    /\ ~asset_frames.value.is_frame_group
    /\ is_asset_served_by_kili(call_asset.content)
    /\ Len(get_content_frames(call_asset, call_net)) = 0

\* C28 (as claimed): when _process_asset returns, every frame with a label
\* file has exactly one of: its image in the images folder, a remote-reference
\* row naming its label file, a refused download; and the image of a single
\* frame served by the platform at the content url is downloaded.
C28_MediaAccountedOnce ==
    (pc = "processed" /\ processed.raised = "") =>
        \A k \in 1..Len(processed.visited) :
            LET filename == processed.visited[k].filename
            IN  Len(processed.visited[k].frame_labels) >= 1 =>
                    /\ Cardinality({way \in {"image", "row", "refused"} :
                                       CASE way = "image" -> HasImage(filename)
                                         [] way = "row" -> HasRemoteRow(filename)
                                         [] way = "refused" -> HasRefusedDownload(filename)}) = 1
                    /\ HostedSingleImage => HasImage(filename)

\* ---------------------------------------------------------------------------
\* The order of the lines of a label file.

\* The job ids of the scope in the order in which the interface declares them:
\* the order of first appearance among the categories.
RECURSIVE DeclaredJobOrder(_, _, _)
DeclaredJobOrder(category_ids, k, acc) ==
    IF k > Len(category_ids) THEN acc
    ELSE DeclaredJobOrder(category_ids, k + 1,
                          IF category_ids[k].value.job_id \in Range(acc) THEN acc
                          ELSE Append(acc, category_ids[k].value.job_id))

\* C29 (as claimed): the label files _process_asset writes are those it
\* writes when the jobs are taken in the order of their declaration, so that
\* every run on the same asset and scope writes the same files.
C29_LabelLinesInDeclaredOrder ==
    pc = "processed" =>
        LabelPaths(processed.fs) \subseteq
            {path \in LabelPaths(_process_asset(<<>>, call_asset, ImagesFolder, LabelsFolder,
                                                call_category_ids,
                                                DeclaredJobOrder(call_category_ids, 1, <<>>),
                                                call_net).fs) :
                processed.fs[path] =
                    _process_asset(<<>>, call_asset, ImagesFolder, LabelsFolder,
                                   call_category_ids,
                                   DeclaredJobOrder(call_category_ids, 1, <<>>),
                                   call_net).fs[path]}

\* ---------------------------------------------------------------------------
\* The ways of handling the media exclude each other.

RowsOf(filename) ==
    {r \in 1..Len(processed.remote) : processed.remote[r][3] = filename \o ".txt"}

DownloadsOf(filename) ==
    {e \in Requests("image_download") : processed.events[e].filename = filename}

\* C30: no frame has both a remote-reference row and an image download; no
\* asset has both a remote-reference row and a video download; every frame
\* has at most one row and at most one download, and rows and downloads are
\* of frames with a label file only.
C30_MaterializationPathsExclusive ==
    pc = "processed" =>
        /\ ~(Len(processed.remote) > 0 /\ Requests("video_download") # {})
        /\ \A k \in 1..Len(processed.visited) :
              LET filename == processed.visited[k].filename
              IN  /\ Cardinality(RowsOf(filename)) <= 1
                  /\ Cardinality(DownloadsOf(filename)) <= 1
                  /\ RowsOf(filename) = {} \/ DownloadsOf(filename) = {}
        /\ \A r \in 1..Len(processed.remote) :
              \E k \in 1..Len(processed.visited) :
                 /\ Len(processed.visited[k].frame_labels) >= 1
                 /\ r \in RowsOf(processed.visited[k].filename)
        /\ \A e \in Requests("image_download") :
              \E k \in 1..Len(processed.visited) :
                 /\ Len(processed.visited[k].frame_labels) >= 1
                 /\ e \in DownloadsOf(processed.visited[k].filename)

\* An image was downloaded from the second of two frame urls, the first of
\* which is not served by the platform, and no row was recorded.
C30_Witness ==
    /\ pc = "processed"
    /\ processed.raised = ""
    /\ Cardinality(Requests("image_download")) = 1
    /\ processed.remote = <<>>
    /\ Len(get_content_frames(call_asset, call_net)) = 2
    /\ ~is_asset_served_by_kili(get_content_frames(call_asset, call_net)[1])
    /\ Cardinality(LabelPaths(processed.fs)) = 1

====
